---- MODULE Spec2Model ----
(***************************************************************************)
(* The invoice lifecycle of the invoicing backend: the service functions   *)
(* of app/services (invoices, items, payments), each run inside            *)
(* transaction_scope against a relational store, with the monetary and     *)
(* payment-aggregate helpers they call.                                     *)
(*                                                                         *)
(* The store holds the committed rows.  Every request owns a session: the  *)
(* rows it has flushed but not committed are visible to its own later      *)
(* statements only, become committed rows at db.commit() and vanish at     *)
(* db.rollback().  Each statement reads the rows committed at the moment   *)
(* it runs (the store's row-level locking / read-committed behaviour the   *)
(* design relies on).  Money is counted in cents; values that are not yet  *)
(* quantized are counted in millionths of a currency unit.                 *)
(***************************************************************************)
EXTENDS Integers, Sequences, FiniteSets, TLC

\* ------------------------------------------------------------------ bounds
MaxInvoices == 2
MaxItems == 3
MaxPayments == 3
MaxCreateItems == 2
MaxYearsElapsed == 1
MaxViews == 2
MaxDays == 4
MaxExecutions == 5

Procs == {"r1", "r2"}
InvoiceIds == 1..MaxInvoices
ItemIds == 1..MaxItems
PaymentIds == 1..MaxPayments
ClientIds == {1, 2}
ExistingClients == {1}

\* ------------------------------------------------------- enums and constants
DRAFT == "draft"
SENT == "sent"
VIEWED == "viewed"
PAID == "paid"
PARTIALLY_PAID == "partially_paid"
OVERDUE == "overdue"
CANCELLED == "cancelled"
InvoiceStatus == {DRAFT, SENT, VIEWED, PAID, PARTIALLY_PAID, OVERDUE, CANCELLED}

PaymentStatus == {"pending", "partial", "completed", "cancelled"}
InvoicePaymentState == {"fully_paid", "overpaid", "partially_paid", "unpaid"}

CLIENT_TYPE_STUDENT == 1
CLIENT_TYPE_INDIVIDUAL == 2
CLIENT_TYPE_CORPORATE == 3
\* VAT_RATE = Decimal("7.5"), in tenths of a percent
VAT_RATE == 75

\* A missing value (Python's None, an unset field of a partial update).
None == "None"
Unset == "unset"

\* ItemUpdate: qty and rate are whole numbers (qty >= 1, rate >= 0) that may
\* be left out of the request or sent as null; the two negative numbers stand
\* for these cases. Null also stands for a whole-number column that holds
\* NULL.
LeftOut == -1
Null == -2

\* The exception classes app/core/exceptions.py defines.
DefinedExceptions ==
    {"AppException", "ValidationException", "NotFoundException",
     "UnauthorizedException", "ForbiddenException", "ConflictException",
     "DatabaseException", "ExternalServiceException"}

\* ------------------------------------------------------------------- state
VARIABLES
    client,     \* committed client ids
    invoice,    \* committed invoice rows, by id
    item,       \* committed item rows
    payment,    \* committed payment rows
    seq,        \* the store's identifier sequences
    pc,         \* each request's position
    req,        \* each request's operation and arguments
    sess,       \* each request's session: loaded values and uncommitted writes
    result,     \* what the request returned or raised
    year,       \* datetime.now().year
    jobs,       \* the tasks handed to the broker, and what became of them
    celery      \* the worker's side: the day, the reminders mailed, the tasks run

vars == <<client, invoice, item, payment, seq, pc, req, sess, result, year, jobs,
         celery>>
store == <<client, invoice, item, payment>>

\* reminder_logs of an invoice no reminder was recorded for (None or {}),
\* and the worker's side before anything ran.
NoLogs == [empty |-> TRUE, last_sent |-> 0, count |-> 0]
NoTask == [state |-> "none", invoice_id |-> 0, retries |-> 0, executions |-> 0, session |-> "none", raised |-> "none"]
NoCelery == [day |-> 0, ran |-> FALSE, sent |-> {}, email |-> NoTask, pdf |-> NoTask]

NoInvoice ==
    [exists |-> FALSE, status |-> None, invoice_no |-> <<>>, client_id |-> 0,
     client_type |-> 0, disc_type |-> None, disc_value |-> None,
     view_count |-> 0, send_reminders |-> FALSE, reminder_frequency |-> Null,
     reminder_logs |-> NoLogs]

NoReq ==
    [op |-> "none", invoice_id |-> 0, status |-> Unset, client_id |-> 0,
     client_type |-> 0, items |-> <<>>, fail_at |-> 0, item_id |-> 0,
     allow |-> FALSE, payment_id |-> 0, reference_number |-> None,
     amount_paid |-> 0, pstatus |-> None, update_status |-> FALSE,
     invoice_no |-> <<>>, disc_type |-> Unset, disc_value |-> Unset,
     dispatch |-> FALSE]

NoSess ==
    [invoice_id |-> 0, loaded |-> NoInvoice, status |-> None,
     new_invoices |-> {}, new_items |-> {}, new_payments |-> {},
     deleted_items |-> {}, deleted_payments |-> {},
     deleted_invoices |-> {}, disc_type |-> Unset, disc_value |-> Unset,
     item_writes |-> {}, deleted_clients |-> {},
     loaded_items |-> {}, viewed |-> FALSE, view_count |-> 0,
     payment_writes |-> {}]

\* What a request gave its caller: the exception that reached it (exc, code)
\* and the one first raised inside the scope (raised).
\* The place of the totals in an answer that carries none.
NoTotals == [subtotal |-> -1, discount |-> -1, total |-> -1, vat |-> -1, vat_total |-> -1]

Ok == [raised |-> "none", exc |-> "none", code |-> "ok", totals |-> NoTotals]
NoResult == [raised |-> "none", exc |-> "none", code |-> "none", totals |-> NoTotals]

\* datetime.now().year when the program starts.
CurrentYear == 2026

Init ==
    /\ client = ExistingClients
    /\ invoice = [i \in InvoiceIds |-> NoInvoice]
    /\ item = {}
    /\ payment = {}
    /\ seq = [invoice |-> 1, item |-> 1, payment |-> 1]
    /\ pc = [p \in Procs |-> "idle"]
    /\ req = [p \in Procs |-> NoReq]
    /\ sess = [p \in Procs |-> NoSess]
    /\ result = [p \in Procs |-> NoResult]
    /\ year = CurrentYear
    /\ jobs = {}
    /\ celery = NoCelery

\* ------------------------------------------------------ monetary calculator
Micro == 1000000
CentMicro == 10000

\* Faulty variant: ties go to the even cent (ROUND_HALF_EVEN).
QuantizeHalfEven(x) ==
    LET cents == x \div CentMicro
        rest == x % CentMicro
    IN  IF 2 * rest > CentMicro \/ (2 * rest = CentMicro /\ cents % 2 = 1)
        THEN cents + 1
        ELSE cents

\* Decimal.quantize(Decimal('0.01'), rounding=ROUND_HALF_UP): millionths to
\* cents, ties away from zero.
QuantizeHalfUp(x) ==
    IF x >= 0 THEN (x + (CentMicro \div 2)) \div CentMicro
    ELSE -(((-x) + (CentMicro \div 2)) \div CentMicro)

\* Decimal(str(discount_value)) for the strings the model stores, in
\* millionths; a string outside the table is not a number.
DecimalTable ==
    [s \in {"0", "0.5", "10", "50", "100", "150", "12.5", "-5"} |->
        CASE s = "0" -> 0
          [] s = "0.5" -> 500000
          [] s = "10" -> 10 * Micro
          [] s = "50" -> 50 * Micro
          [] s = "100" -> 100 * Micro
          [] s = "150" -> 150 * Micro
          [] s = "12.5" -> 12500000
          [] s = "-5" -> -5 * Micro]

IsNumeric(s) == s \in DOMAIN DecimalTable

is_discount_type(value) == value \in {"fixed", "percent", "percentage"}

Min(a, b) == IF a <= b THEN a ELSE b

\* Faulty variant: a fixed discount is not capped at the subtotal.
DiscountUncapped(discount_type, discount_value, subtotal) ==
    IF ~is_discount_type(discount_type) \/ discount_value \in {None, ""}
    THEN [raised |-> FALSE, value |-> 0]
    ELSE IF ~IsNumeric(discount_value)
    THEN [raised |-> TRUE, value |-> 0]
    ELSE LET disc_val == DecimalTable[discount_value]
         IN  IF discount_type = "fixed"
             THEN [raised |-> FALSE, value |-> IF disc_val > 0 THEN disc_val ELSE 0]
             ELSE IF 0 <= disc_val /\ disc_val <= 100 * Micro
             THEN [raised |-> FALSE,
                   value |-> (disc_val \div 100000) * (subtotal \div CentMicro) * 10]
             ELSE [raised |-> FALSE, value |-> 0]

\* calculate_discount: the discount in millionths, or raised when
\* Decimal(str(discount_value)) fails (decimal.InvalidOperation is neither a
\* ValueError nor a TypeError, so the except clause lets it through).  The
\* percentages of the model have one decimal and the subtotals are whole
\* cents, so (disc_val / 100) * sub is taken as tenths of a percent times
\* cents, which is exact and stays within the integers of the checker.
calculate_discount(discount_type, discount_value, subtotal) ==
    IF ~is_discount_type(discount_type) \/ discount_value \in {None, ""}
    THEN [raised |-> FALSE, value |-> 0]
    ELSE IF ~IsNumeric(discount_value)
    THEN [raised |-> TRUE, value |-> 0]
    ELSE LET disc_val == DecimalTable[discount_value]
         IN  IF discount_type = "fixed"
             THEN [raised |-> FALSE,
                   value |-> IF disc_val > 0 THEN Min(disc_val, subtotal) ELSE 0]
             ELSE IF 0 <= disc_val /\ disc_val <= 100 * Micro
             THEN [raised |-> FALSE,
                   value |-> (disc_val \div 100000) * (subtotal \div CentMicro) * 10]
             ELSE [raised |-> FALSE, value |-> 0]

\* calculate_vat: students are exempt, the others pay vat_rate percent
\* (vat_rate is in tenths of a percent).  The product is cut to whole
\* millionths; the amounts are never negative, and rounding a non-negative
\* value half-up to cents does not depend on what lies below a millionth.
calculate_vat(amount, client_type, vat_rate) ==
    IF client_type = CLIENT_TYPE_STUDENT THEN 0
    ELSE vat_rate * (amount \div 1000) + (vat_rate * (amount % 1000)) \div 1000

\* Faulty variant: rows with equal amounts are counted once.
RECURSIVE SumDistinctAmounts(_)
SumDistinctAmounts(rows) ==
    IF rows = {} THEN 0
    ELSE LET r == CHOOSE x \in rows : TRUE
         IN  r.amount + SumDistinctAmounts({x \in rows : x.amount # r.amount})

RECURSIVE SumAmount(_)
SumAmount(rows) ==
    IF rows = {} THEN 0
    ELSE LET r == CHOOSE x \in rows : TRUE
         IN  r.amount + SumAmount(rows \ {r})

\* calculate_invoice_totals over an invoice row and its item rows; the five
\* returned values are in cents.
calculate_invoice_totals(inv, items) ==
    IF items = {}
    THEN [raised |-> FALSE, subtotal |-> 0, discount |-> 0, total |-> 0,
          vat |-> 0, vat_total |-> 0]
    ELSE LET subtotal == SumAmount(items) * CentMicro
             disc == calculate_discount(inv.disc_type, inv.disc_value, subtotal)
             discount == disc.value
             total_after_discount == subtotal - discount
             vat == calculate_vat(total_after_discount, inv.client_type, VAT_RATE)
             vat_total == IF inv.client_type = CLIENT_TYPE_STUDENT
                          THEN total_after_discount
                          ELSE total_after_discount + vat
         IN  [raised |-> disc.raised,
              subtotal |-> QuantizeHalfUp(subtotal),
              discount |-> QuantizeHalfUp(discount),
              total |-> QuantizeHalfUp(total_after_discount),
              vat |-> QuantizeHalfUp(vat),
              vat_total |-> QuantizeHalfUp(vat_total)]

\* -------------------------------------------------------- payment aggregator
\* Faulty variant: cancelled payments are summed too.
RECURSIVE SumEveryPayment(_)
SumEveryPayment(rows) ==
    IF rows = {} THEN 0
    ELSE LET r == CHOOSE x \in rows : TRUE
         IN  r.amount_paid + SumEveryPayment(rows \ {r})

RECURSIVE SumPaid(_)
SumPaid(rows) ==
    IF rows = {} THEN 0
    ELSE LET r == CHOOSE x \in rows : TRUE
         IN  (IF r.status # "cancelled" THEN r.amount_paid ELSE 0)
             + SumPaid(rows \ {r})

\* calculate_remaining_balance, in cents.
calculate_remaining_balance(inv, items, payments) ==
    calculate_invoice_totals(inv, items).vat_total - SumPaid(payments)

determine_payment_status(inv, items, payments) ==
    LET remaining_balance == calculate_remaining_balance(inv, items, payments)
        invoice_total == calculate_invoice_totals(inv, items).vat_total
    IN  IF remaining_balance = 0 THEN "fully_paid"
        ELSE IF remaining_balance < 0 THEN "overpaid"
        ELSE IF remaining_balance < invoice_total THEN "partially_paid"
        ELSE "unpaid"

\* -------------------------------------------------- status transition table
\* Faulty variant of the table: a draft may be marked paid directly.
TransitionsDraftToPaid ==
    [s \in InvoiceStatus |->
        CASE s = DRAFT -> {SENT, CANCELLED, PAID}
          [] s = SENT -> {VIEWED, PAID, PARTIALLY_PAID, OVERDUE, CANCELLED}
          [] s = VIEWED -> {PAID, PARTIALLY_PAID, OVERDUE, CANCELLED}
          [] s = PARTIALLY_PAID -> {PAID, OVERDUE, CANCELLED}
          [] s = OVERDUE -> {PAID, PARTIALLY_PAID, CANCELLED}
          [] OTHER -> {}]

\* Faulty variant of the table: a cancelled invoice may be reopened.
TransitionsReopenCancelled ==
    [s \in InvoiceStatus |->
        CASE s = DRAFT -> {SENT, CANCELLED}
          [] s = SENT -> {VIEWED, PAID, PARTIALLY_PAID, OVERDUE, CANCELLED}
          [] s = VIEWED -> {PAID, PARTIALLY_PAID, OVERDUE, CANCELLED}
          [] s = PARTIALLY_PAID -> {PAID, OVERDUE, CANCELLED}
          [] s = OVERDUE -> {PAID, PARTIALLY_PAID, CANCELLED}
          [] s = CANCELLED -> {DRAFT}
          [] OTHER -> {}]

ALLOWED_STATUS_TRANSITIONS ==
    [s \in InvoiceStatus |->
        CASE s = DRAFT -> {SENT, CANCELLED}
          [] s = SENT -> {VIEWED, PAID, PARTIALLY_PAID, OVERDUE, CANCELLED}
          [] s = VIEWED -> {PAID, PARTIALLY_PAID, OVERDUE, CANCELLED}
          [] s = PAID -> {}
          [] s = PARTIALLY_PAID -> {PAID, OVERDUE, CANCELLED}
          [] s = OVERDUE -> {PAID, PARTIALLY_PAID, CANCELLED}
          [] s = CANCELLED -> {}]

\* validate_status_transition: TRUE when it returns, FALSE when it raises
\* ValidationException.
validate_status_transition(current_status, new_status) ==
    \/ current_status = new_status
    \/ new_status \in ALLOWED_STATUS_TRANSITIONS[current_status]


\* ------------------------------------------------------- transaction_scope
StoreNow == [client |-> client, invoice |-> invoice, item |-> item, payment |-> payment]

\* db.commit(): the session's flushed writes become committed rows.  An
\* UPDATE is issued only for an attribute whose value differs from the loaded
\* one.
\* The discount configuration is written the same way (Unset: the session
\* did not assign the attribute), and a deleted invoice
\* takes the rows that reference it along (cascade="all, delete-orphan" on
\* Invoice.items and Invoice.payments, ondelete='CASCADE' on their foreign
\* keys).
\* Faulty variant: the rows of a deleted invoice stay behind.
NoCascade(rows, deleted) == rows

Cascade(rows, deleted) == {r \in rows : r.invoice_id \notin deleted}

\* Faulty variant: the payments of the session's invoice are written as the
\* session holds them, dropping what others committed meanwhile.
PaymentsOfSession(s) ==
    {r \in payment : r.invoice_id # s.invoice_id} \cup s.new_payments

\* The UPDATE of a payment row a session flushed (update_payment): the
\* columns the request supplied, applied to row r as it is committed now.
PaymentAfter(r, writes) ==
    IF \E w \in writes : w.id = r.id
    THEN LET w == CHOOSE x \in writes : x.id = r.id
         IN  [r EXCEPT !.amount_paid = IF w.amount_paid = LeftOut THEN @ ELSE w.amount_paid,
                       !.status = IF w.status = Unset THEN @ ELSE w.status]
    ELSE r

PaymentsAfter(s) ==
    {PaymentAfter(r, s.payment_writes) : r \in {x \in payment : x.id \notin s.deleted_payments}}
    \cup s.new_payments

\* The UPDATEs of item rows a session flushed, one record per changed column,
\* applied to row r as it is committed now.
ItemAfter(r, writes) ==
    LET Col(c, old) == IF \E w \in writes : w.id = r.id /\ w.col = c
                       THEN (CHOOSE w \in writes : w.id = r.id /\ w.col = c).value
                       ELSE old
    IN  [r EXCEPT !.qty = Col("qty", @), !.rate = Col("rate", @),
                  !.amount = Col("amount", @)]

Commit(s) ==
    [client |-> client \ s.deleted_clients,
     invoice |->
        [i \in InvoiceIds |->
            IF i \in s.deleted_invoices
            THEN NoInvoice
            ELSE IF \E n \in s.new_invoices : n.id = i
            THEN (CHOOSE n \in s.new_invoices : n.id = i).row
            ELSE IF i = s.invoice_id /\ invoice[i].exists
            THEN [invoice[i] EXCEPT
                    !.status = IF s.status # s.loaded.status
                               THEN s.status ELSE @,
                    !.disc_type = IF s.disc_type \notin {Unset, s.loaded.disc_type}
                                  THEN s.disc_type ELSE @,
                    !.disc_value = IF s.disc_value \notin {Unset, s.loaded.disc_value}
                                   THEN s.disc_value ELSE @,
                    !.view_count = IF s.viewed THEN s.view_count ELSE @]
            ELSE invoice[i]],
     item |-> Cascade({ItemAfter(r, s.item_writes) :
                          r \in {x \in item : x.id \notin s.deleted_items}}
                      \cup s.new_items,
                      s.deleted_invoices),
     payment |-> Cascade(PaymentsAfter(s), s.deleted_invoices)]

\* db.rollback(): the session's flushed writes are dropped.
\* Faulty variant: what the session flushed stays in the store.
KeepFlushed(s) == Commit(s)

Rollback(s) == StoreNow

NotFoundException(resource) == [exc |-> "NotFoundException", code |-> resource]
ValidationException == [exc |-> "ValidationException", code |-> "VALIDATION_ERROR"]
ConflictException(code) == [exc |-> "ConflictException", code |-> code]
IntegrityError == [exc |-> "IntegrityError", code |-> "IntegrityError"]
DataError == [exc |-> "DataError", code |-> "DataError"]
OperationalError == [exc |-> "OperationalError", code |-> "OperationalError"]
InvalidOperation == [exc |-> "InvalidOperation", code |-> "InvalidOperation"]

\* raise Name(code=...): the class must be one the import of
\* app.core.exceptions (database.py, lines 15-19) can bind; a name that module
\* does not define is not bound, Python reports the failed import, and no
\* exception of that name reaches the caller.
RaiseNamed(name, code) ==
    IF name \in DefinedExceptions THEN [exc |-> name, code |-> code]
    ELSE [exc |-> "ImportError", code |-> name]

Raised(e, reaching) ==
    [raised |-> e.exc, exc |-> reaching.exc, code |-> reaching.code, totals |-> NoTotals]

\* The except clauses of transaction_scope: what reaches the caller for an
\* exception e raised inside the scope.
Translate(e) ==
    CASE e.exc = "IntegrityError" ->
            Raised(e, RaiseNamed("ConflictError", "CONSTRAINT_VIOLATION"))
      [] e.exc = "OperationalError" ->
            Raised(e, RaiseNamed("ConnectionError", "DB_CONNECTION_ERROR"))
      [] e.exc = "InvalidRequestError" ->
            Raised(e, RaiseNamed("TransactionError", "INVALID_SESSION_STATE"))
      [] e.exc \in {"DataError", "StaleDataError"} ->
            Raised(e, RaiseNamed("TransactionError", "DATABASE_ERROR"))
      [] OTHER -> Raised(e, e)

SetStore(st) ==
    /\ client' = st.client
    /\ invoice' = st.invoice
    /\ item' = st.item
    /\ payment' = st.payment

\* An exception e leaves the scope of request p whose session is s: rollback,
\* then the translated exception reaches the caller.
Abort(p, s, e) ==
    /\ SetStore(Rollback(s))
    /\ pc' = [pc EXCEPT ![p] = "done"]
    /\ sess' = [sess EXCEPT ![p] = NoSess]
    /\ result' = [result EXCEPT ![p] = Translate(e)]
    /\ UNCHANGED <<year, jobs, celery>>

\* The body of request p goes on to label l with session s.
Goto(p, l, s) ==
    /\ pc' = [pc EXCEPT ![p] = l]
    /\ sess' = [sess EXCEPT ![p] = s]
    /\ UNCHANGED <<store, result, year, jobs, celery>>

\* The scope's body ended without raising: db.commit().
TS_Commit(p) ==
    /\ pc[p] = "commit"
    /\ SetStore(Commit(sess[p]))
    /\ pc' = [pc EXCEPT ![p] = "done"]
    /\ sess' = [sess EXCEPT ![p] = NoSess]
    /\ result' = [result EXCEPT ![p] = Ok]
    /\ UNCHANGED <<req, seq, year, jobs, celery>>

\* db.commit() raises OperationalError (the connection to the store is lost):
\* the scope rolls back.
TS_CommitFails(p) ==
    /\ pc[p] = "commit"
    /\ Abort(p, sess[p], OperationalError)
    /\ UNCHANGED <<req, seq>>

\* The caller has its answer; the request's session is closed (get_db).
Return(p) ==
    /\ pc[p] = "done"
    /\ pc' = [pc EXCEPT ![p] = "idle"]
    /\ req' = [req EXCEPT ![p] = NoReq]
    /\ result' = [result EXCEPT ![p] = NoResult]
    /\ UNCHANGED <<store, seq, sess, year, jobs, celery>>

\* ----------------------------------------------------------- create_invoice
ItemInputs == {[qty |-> 1, rate |-> 0], [qty |-> 1, rate |-> 100]}
ClientTypes == {CLIENT_TYPE_STUDENT, CLIENT_TYPE_INDIVIDUAL}

\* The item lists of a request: one to MaxCreateItems items (InvoiceCreate
\* asks for at least one).
ItemLists(inputs) == UNION {[1..n -> inputs] : n \in 1..MaxCreateItems}

RECURSIVE Digits(_)
Digits(n) == IF n < 10 THEN <<n>> ELSE Append(Digits(n \div 10), n % 10)

RECURSIVE ZeroPad(_, _)
ZeroPad(d, width) == IF Len(d) >= width THEN d ELSE ZeroPad(<<0>> \o d, width)

\* Faulty variant: the id is not padded to six digits.
NumberUnpadded(invoice_id) == <<"INV", year, Digits(invoice_id)>>

\* generate_invoice_number: f"INV-{current_year}-{invoice_id:06d}", as the
\* prefix, the year and the digits of the number.
generate_invoice_number(invoice_id) ==
    <<"INV", year, ZeroPad(Digits(invoice_id), 6)>>

\* (qty * rate).quantize(Decimal('0.01')), in cents.
ItemAmount(qty, rate) == QuantizeHalfUp(qty * rate * Micro)

\* Rows that requests under way are still to insert; the guards of the
\* actions below keep every id within its bound.
PendingInvoices == Cardinality({q \in Procs : pc[q] = "ci_insert"})

RECURSIVE PendingItemsOf(_)
PendingItemsOf(ps) ==
    IF ps = {} THEN 0
    ELSE LET q == CHOOSE x \in ps : TRUE
         IN  (IF pc[q] = "ci_insert" THEN Len(req[q].items) ELSE 0)
             + PendingItemsOf(ps \ {q})

PendingItems == PendingItemsOf(Procs)

PendingPayments == Cardinality({q \in Procs : pc[q] = "cp_insert"})

\* The invoice number a request carries when nothing is said about it
\* (InvoiceBase.invoice_no is required and free text).
DefaultNumber == <<"REQ", 0, <<1>>>>

\* The unique constraint on invoice.invoice_no, against the committed rows.
NumberTaken(no) ==
    \E i \in InvoiceIds : invoice[i].exists /\ invoice[i].invoice_no = no

\* The time of the server passes into the next year.
Tick ==
    /\ year < CurrentYear + MaxYearsElapsed
    /\ year' = year + 1
    /\ UNCHANGED <<store, seq, pc, req, sess, result, jobs, celery>>

\* The body of request p goes on to label l with session s, having sent the
\* jobs new to the broker (celery_app.send_task).
Dispatch(p, l, s, new) ==
    /\ pc' = [pc EXCEPT ![p] = l]
    /\ sess' = [sess EXCEPT ![p] = s]
    /\ jobs' = jobs \cup new
    /\ UNCHANGED <<store, result, year, celery>>

\* create_invoice, lines 126-127: the scope opens and the client is looked up.
\* invoice_no, disc_type and disc_value are fields of the request, dispatch is
\* auto_generate_pdf and auto_send_email.
CI_Begin(p, client_id, client_type, items, fail_at, invoice_no, disc_type, disc_value, dispatch) ==
    /\ pc[p] = "idle"
    /\ seq.invoice + PendingInvoices <= MaxInvoices
    /\ seq.item + PendingItems + Len(items) - 1 <= MaxItems
    /\ req' = [req EXCEPT ![p] =
                 [NoReq EXCEPT !.op = "create_invoice", !.client_id = client_id,
                               !.client_type = client_type, !.items = items,
                               !.fail_at = fail_at, !.invoice_no = invoice_no,
                               !.disc_type = disc_type, !.disc_value = disc_value,
                               !.dispatch = dispatch]]
    /\ UNCHANGED seq
    /\ IF client_id \notin client
       THEN Abort(p, NoSess, NotFoundException("CLIENT_NOT_FOUND"))
       ELSE Goto(p, "ci_insert", NoSess)

\* create_invoice called with its defaults and without a discount.
CI_ValidateClient(p, client_id, client_type, items, fail_at) ==
    CI_Begin(p, client_id, client_type, items, fail_at, DefaultNumber,
             None, None, FALSE)

\* create_invoice, lines 129-193: the header is flushed with the number of the
\* request and then numbered, the items are flushed one INSERT after the
\* other (the INSERT of item fail_at is refused by the store), and the jobs are
\* sent, all of it inside the scope.
CI_Insert(p) ==
    /\ pc[p] = "ci_insert"
    /\ LET r == req[p]
           id == seq.invoice
           n == IF r.fail_at = 0 THEN Len(r.items) ELSE r.fail_at - 1
           header == [id |-> id,
                      row |-> [exists |-> TRUE, status |-> DRAFT,
                               invoice_no |-> generate_invoice_number(id),
                               client_id |-> r.client_id,
                               client_type |-> r.client_type,
                               disc_type |-> r.disc_type,
                               disc_value |-> r.disc_value,
                               view_count |-> 0, send_reminders |-> FALSE,
                               reminder_frequency |-> Null,
                               reminder_logs |-> NoLogs]]
           rows == {[id |-> seq.item + k - 1, invoice_id |-> id,
                     qty |-> r.items[k].qty, rate |-> r.items[k].rate,
                     amount |-> ItemAmount(r.items[k].qty, r.items[k].rate)]
                    : k \in 1..n}
           s == [NoSess EXCEPT !.new_invoices = {header}, !.new_items = rows]
       IN  IF NumberTaken(r.invoice_no) \/ NumberTaken(header.row.invoice_no)
           THEN /\ seq' = [seq EXCEPT !.invoice = id + 1]
                /\ Abort(p, [NoSess EXCEPT !.new_invoices = {header}],
                         IntegrityError)
           ELSE /\ seq' = [seq EXCEPT
                             !.invoice = id + 1,
                             !.item = seq.item + (IF r.fail_at = 0 THEN n ELSE n + 1)]
                /\ IF r.fail_at # 0
                   THEN Abort(p, s, DataError)
                   ELSE IF r.dispatch
                   THEN Dispatch(p, "commit", s,
                                 {[invoice_id |-> id, state |-> "queued"]})
                   ELSE Goto(p, "commit", s)
    /\ UNCHANGED req

\* --------------------------------------- change_invoice_status, update_invoice
\* change_invoice_status, lines 237-243.
CS_Select(p, invoice_id, new_status) ==
    /\ pc[p] = "idle"
    /\ req' = [req EXCEPT ![p] =
                 [NoReq EXCEPT !.op = "change_invoice_status",
                               !.invoice_id = invoice_id, !.status = new_status]]
    /\ UNCHANGED seq
    /\ IF ~invoice[invoice_id].exists
       THEN Abort(p, NoSess, NotFoundException("INVOICE_NOT_FOUND"))
       ELSE IF ~validate_status_transition(invoice[invoice_id].status, new_status)
       THEN Abort(p, NoSess, ValidationException)
       ELSE Goto(p, "commit",
                 [NoSess EXCEPT !.invoice_id = invoice_id,
                                !.loaded = invoice[invoice_id],
                                !.status = new_status])

\* update_invoice, lines 208 and 215-216: model_dump(exclude_unset=True)
\* keeps the supplied fields only, and setattr assigns each of them; a field
\* left out (Unset) keeps its current value, one sent as null becomes None.
\* Faulty variant: a field left out is written as null.
SuppliedOrNull(value, current) == IF value = Unset THEN None ELSE value

Supplied(value, current) == IF value = Unset THEN current ELSE value

\* update_invoice, lines 205-218, over the fields status, disc_type and
\* disc_value.
UI_Update(p, invoice_id, status, disc_type, disc_value) ==
    /\ pc[p] = "idle"
    /\ req' = [req EXCEPT ![p] =
                 [NoReq EXCEPT !.op = "update_invoice",
                               !.invoice_id = invoice_id, !.status = status,
                               !.disc_type = disc_type, !.disc_value = disc_value]]
    /\ UNCHANGED seq
    /\ LET cur == invoice[invoice_id]
           s == [NoSess EXCEPT !.invoice_id = invoice_id, !.loaded = cur,
                               !.status = Supplied(status, cur.status),
                               !.disc_type = Supplied(disc_type, cur.disc_type),
                               !.disc_value = Supplied(disc_value, cur.disc_value)]
       IN  IF ~cur.exists
           THEN Abort(p, NoSess, NotFoundException("INVOICE_NOT_FOUND"))
           ELSE IF status \notin {Unset, None}
                   /\ ~validate_status_transition(cur.status, status)
           THEN Abort(p, NoSess, ValidationException)
           ELSE IF s.status = None
           THEN Abort(p, s, IntegrityError)
           ELSE Goto(p, "commit", s)

\* update_invoice with the status as the only field that may be supplied.
UI_Select(p, invoice_id, status) == UI_Update(p, invoice_id, status, Unset, Unset)

\* ------------------------------------------------------------ item_service
\* The rows a statement of session s finds: the committed ones, less those
\* it deleted, plus those it flushed.
VisibleItems(s, invoice_id) ==
    {r \in item : r.invoice_id = invoice_id /\ r.id \notin s.deleted_items}
    \cup {r \in s.new_items : r.invoice_id = invoice_id}

\* Faulty variant: the payment the session has flushed is not seen.
CommittedPayments(s, invoice_id) ==
    {r \in payment : r.invoice_id = invoice_id}

\* Faulty variant: the payments other sessions have flushed and not yet
\* committed are seen as well.
UncommittedPayments(s, invoice_id) ==
    {r \in payment : r.invoice_id = invoice_id /\ r.id \notin s.deleted_payments}
    \cup {r \in UNION {sess[q].new_payments : q \in Procs} : r.invoice_id = invoice_id}

VisiblePayments(s, invoice_id) ==
    {r \in payment : r.invoice_id = invoice_id /\ r.id \notin s.deleted_payments}
    \cup {r \in s.new_payments : r.invoice_id = invoice_id}

\* add_item_to_invoice, lines 20-41.
AI_Insert(p, invoice_id, it) ==
    /\ pc[p] = "idle"
    /\ seq.item + PendingItems <= MaxItems
    /\ req' = [req EXCEPT ![p] =
                 [NoReq EXCEPT !.op = "add_item_to_invoice",
                               !.invoice_id = invoice_id, !.items = <<it>>]]
    /\ IF ~invoice[invoice_id].exists
       THEN /\ Abort(p, NoSess, NotFoundException("INVOICE_NOT_FOUND"))
            /\ UNCHANGED seq
       ELSE /\ Goto(p, "commit",
                    [NoSess EXCEPT !.new_items =
                        {[id |-> seq.item, invoice_id |-> invoice_id,
                          qty |-> it.qty, rate |-> it.rate,
                          amount |-> ItemAmount(it.qty, it.rate)]}])
            /\ seq' = [seq EXCEPT !.item = seq.item + 1]

\* model_dump(exclude_unset=True) and setattr, for a field of an item.
SuppliedNumber(value, current) == IF value = LeftOut THEN current ELSE value

\* Faulty variant: update_item leaves the amount as it was.
AmountKept(row, qty, rate) == row.amount

\* update_item, lines 67-73: the amount is recomputed when the request carries
\* a quantity or a rate, from the values the row has after the setattr loop.
UpdatedAmount(row, qty, rate) ==
    IF qty # LeftOut \/ rate # LeftOut
    THEN ItemAmount(SuppliedNumber(qty, row.qty), SuppliedNumber(rate, row.rate))
    ELSE row.amount

\* update_item, lines 52-76: the item is loaded, the supplied fields are set,
\* the amount is recomputed and the changed columns are flushed.  A quantity
\* or rate sent as null reaches Decimal(str(None)), which raises
\* decimal.InvalidOperation.
UpdI_Update(p, item_id, qty, rate) ==
    /\ pc[p] = "idle"
    /\ req' = [req EXCEPT ![p] =
                 [NoReq EXCEPT !.op = "update_item", !.item_id = item_id,
                               !.items = <<[qty |-> qty, rate |-> rate]>>]]
    /\ UNCHANGED seq
    /\ IF ~\E r \in item : r.id = item_id
       THEN Abort(p, NoSess, NotFoundException("ITEM_NOT_FOUND"))
       ELSE LET row == CHOOSE r \in item : r.id = item_id
                q == SuppliedNumber(qty, row.qty)
                r == SuppliedNumber(rate, row.rate)
            IN  IF (qty # LeftOut \/ rate # LeftOut) /\ (q = Null \/ r = Null)
                THEN Abort(p, NoSess, InvalidOperation)
                ELSE LET new == [row EXCEPT !.qty = q, !.rate = r,
                                            !.amount = UpdatedAmount(row, qty, rate)]
                         writes == {[id |-> item_id, col |-> c, value |-> new[c]] :
                                      c \in {c \in {"qty", "rate", "amount"} :
                                               new[c] # row[c]}}
                     IN  Goto(p, "commit",
                              [NoSess EXCEPT !.invoice_id = row.invoice_id,
                                             !.item_writes = writes])

\* delete_item, lines 86-92: the item is looked up.
DI_Select(p, item_id, allow_last_item_delete) ==
    /\ pc[p] = "idle"
    /\ req' = [req EXCEPT ![p] =
                 [NoReq EXCEPT !.op = "delete_item", !.item_id = item_id,
                               !.allow = allow_last_item_delete]]
    /\ UNCHANGED seq
    /\ IF ~\E r \in item : r.id = item_id
       THEN Abort(p, NoSess, NotFoundException("ITEM_NOT_FOUND"))
       ELSE Goto(p, "di_count",
                 [NoSess EXCEPT !.invoice_id =
                     (CHOOSE r \in item : r.id = item_id).invoice_id])

\* delete_item, lines 94-99: the deletion is refused.
\* Faulty variant: the override is not looked at.
OverrideIgnored(allow_last_item_delete, item_count) == item_count = 1

LastItemDeletionForbidden(allow_last_item_delete, item_count) ==
    ~allow_last_item_delete /\ item_count = 1

\* delete_item, lines 94-106: the invoice's items are counted, then the item
\* is marked for deletion.
DI_Count(p) ==
    /\ pc[p] = "di_count"
    /\ LET s == sess[p]
           item_count == Cardinality(VisibleItems(s, s.invoice_id))
       IN  IF LastItemDeletionForbidden(req[p].allow, item_count)
           THEN Abort(p, s, ConflictException("LAST_ITEM_DELETION_FORBIDDEN"))
           ELSE Goto(p, "commit", [s EXCEPT !.deleted_items = {req[p].item_id}])
    /\ UNCHANGED <<req, seq>>

\* --------------------------------------------------------- payment_service
PaymentAmounts == {5000}
PaymentInputStatus == {"completed", "cancelled"}
ReferenceNumbers == {None, "", "R1"}

\* The payment table as models/payment.py declares it: reference_number is a
\* nullable String(100) without a unique constraint over (invoice_id,
\* reference_number), so the store refuses no INSERT on its account.
HasUniqueReferenceConstraint == FALSE

\* Faulty variant: the reference is looked for on every invoice.
ReferenceUniqueEverywhere(s, invoice_id, reference_number) ==
    \/ reference_number \in {None, ""}
    \/ ~\E r \in payment \cup s.new_payments : r.reference_number = reference_number

\* _validate_payment_reference_unique: TRUE when it returns, FALSE when it
\* raises.
validate_payment_reference_unique(s, invoice_id, reference_number) ==
    \/ reference_number \in {None, ""}
    \/ ~\E r \in VisiblePayments(s, invoice_id) : r.reference_number = reference_number

\* create_payment / create_payment_and_update_invoice, first statement: the
\* invoice is looked up.
CP_SelectInvoice(p, update, invoice_id, amount, reference_number, pstatus) ==
    /\ pc[p] = "idle"
    /\ seq.payment + PendingPayments <= MaxPayments
    /\ req' = [req EXCEPT ![p] =
                 [NoReq EXCEPT !.op = IF update THEN "create_payment_and_update_invoice"
                                      ELSE "create_payment",
                               !.update_status = update,
                               !.invoice_id = invoice_id, !.amount_paid = amount,
                               !.reference_number = reference_number,
                               !.pstatus = pstatus]]
    /\ UNCHANGED seq
    /\ IF ~invoice[invoice_id].exists
       THEN Abort(p, NoSess, NotFoundException("INVOICE_NOT_FOUND"))
       ELSE Goto(p, "cp_insert",
                 [NoSess EXCEPT !.invoice_id = invoice_id,
                                !.loaded = invoice[invoice_id],
                                !.status = invoice[invoice_id].status])

\* The reference number is checked, then _create_payment_record adds the row
\* and flushes it.
CP_Insert(p) ==
    /\ pc[p] = "cp_insert"
    /\ LET r == req[p]
           s == sess[p]
           row == [id |-> seq.payment, invoice_id |-> r.invoice_id,
                   reference_number |-> r.reference_number,
                   amount_paid |-> r.amount_paid, status |-> r.pstatus]
       IN  IF ~validate_payment_reference_unique(s, r.invoice_id, r.reference_number)
           THEN /\ Abort(p, s, ConflictException("DUPLICATE_PAYMENT_REFERENCE"))
                /\ UNCHANGED seq
           ELSE IF /\ HasUniqueReferenceConstraint
                   /\ \E q \in payment : /\ q.invoice_id = row.invoice_id
                                         /\ q.reference_number = row.reference_number
           THEN /\ Abort(p, s, IntegrityError)
                /\ seq' = [seq EXCEPT !.payment = seq.payment + 1]
           ELSE /\ Goto(p, IF r.update_status THEN "update_status" ELSE "commit",
                        [s EXCEPT !.new_payments = {row}])
                /\ seq' = [seq EXCEPT !.payment = seq.payment + 1]
    /\ UNCHANGED req

\* Faulty variant: the status derived from the payments is written only when
\* validate_status_transition allows the change.
StatusWriteThroughTable(s) ==
    LET payment_status == determine_payment_status(s.loaded, VisibleItems(s, s.invoice_id),
                                                   VisiblePayments(s, s.invoice_id))
        new_status == IF payment_status \in {"fully_paid", "overpaid"} THEN PAID
                      ELSE IF payment_status = "partially_paid" THEN PARTIALLY_PAID
                      ELSE s.status
    IN  IF validate_status_transition(s.status, new_status)
        THEN [s EXCEPT !.status = new_status]
        ELSE s

\* _update_invoice_status_after_payment: invoice.items and invoice.payments
\* are loaded now, the aggregate state is derived and the status attribute is
\* set from it.
update_invoice_status_after_payment(s) ==
    LET items == VisibleItems(s, s.invoice_id)
        payments == VisiblePayments(s, s.invoice_id)
        payment_status == determine_payment_status(s.loaded, items, payments)
    IN  IF payment_status \in {"fully_paid", "overpaid"} THEN [s EXCEPT !.status = PAID]
        ELSE IF payment_status = "partially_paid" THEN [s EXCEPT !.status = PARTIALLY_PAID]
        ELSE s

PS_UpdateStatus(p) ==
    /\ pc[p] = "update_status"
    /\ LET s == sess[p]
       IN  IF calculate_invoice_totals(s.loaded, VisibleItems(s, s.invoice_id)).raised
           THEN Abort(p, s, InvalidOperation)
           ELSE Goto(p, "commit", update_invoice_status_after_payment(s))
    /\ UNCHANGED <<req, seq>>

\* delete_payment_and_update_invoice, lines 295-308: the payment and its
\* invoice are loaded, the payment is deleted and the deletion flushed.
DP_Select(p, payment_id) ==
    /\ pc[p] = "idle"
    /\ req' = [req EXCEPT ![p] =
                 [NoReq EXCEPT !.op = "delete_payment_and_update_invoice",
                               !.payment_id = payment_id]]
    /\ UNCHANGED seq
    /\ IF ~\E r \in payment : r.id = payment_id
       THEN Abort(p, NoSess, NotFoundException("PAYMENT_NOT_FOUND"))
       ELSE LET row == CHOOSE r \in payment : r.id = payment_id
            IN  Goto(p, "update_status",
                     [NoSess EXCEPT !.invoice_id = row.invoice_id,
                                    !.loaded = invoice[row.invoice_id],
                                    !.status = invoice[row.invoice_id].status,
                                    !.deleted_payments = {payment_id}])

\* update_payment, lines 252-274: the payment is loaded, the supplied fields
\* are assigned and flushed; the invoice is not looked at.
UpdP_Update(p, payment_id, amount, pstatus) ==
    /\ pc[p] = "idle"
    /\ req' = [req EXCEPT ![p] =
                 [NoReq EXCEPT !.op = "update_payment", !.payment_id = payment_id,
                               !.amount_paid = amount, !.pstatus = pstatus]]
    /\ UNCHANGED seq
    /\ IF ~\E r \in payment : r.id = payment_id
       THEN Abort(p, NoSess, NotFoundException("PAYMENT_NOT_FOUND"))
       ELSE Goto(p, "commit",
                 [NoSess EXCEPT !.payment_writes =
                     {[id |-> payment_id, amount_paid |-> amount, status |-> pstatus]}])

\* ----------------------------------------------------------- delete_invoice
\* delete_invoice: the invoice is loaded with its payments, the override is
\* looked at and the invoice is marked for deletion; the DELETEs go out with
\* the commit.
DelInv_Select(p, invoice_id, allow_with_payments) ==
    /\ pc[p] = "idle"
    /\ req' = [req EXCEPT ![p] =
                 [NoReq EXCEPT !.op = "delete_invoice", !.invoice_id = invoice_id,
                               !.allow = allow_with_payments]]
    /\ UNCHANGED seq
    /\ IF ~invoice[invoice_id].exists
       THEN Abort(p, NoSess, NotFoundException("INVOICE_NOT_FOUND"))
       ELSE LET payments == {r \in payment : r.invoice_id = invoice_id}
            IN  IF ~allow_with_payments /\ payments # {}
                THEN Abort(p, NoSess, ConflictException("INVOICE_HAS_PAYMENTS"))
                ELSE Goto(p, "commit",
                          [NoSess EXCEPT !.deleted_invoices = {invoice_id},
                                         !.deleted_payments = {r.id : r \in payments}])

\* ------------------------------------------------------------ delete_client
\* delete_client, lines 110-119: the client is loaded and marked for deletion;
\* nothing is flushed before the scope ends.
DelC_Select(p, client_id) ==
    /\ pc[p] = "idle"
    /\ req' = [req EXCEPT ![p] =
                 [NoReq EXCEPT !.op = "delete_client", !.client_id = client_id]]
    /\ UNCHANGED seq
    /\ IF client_id \notin client
       THEN Abort(p, NoSess, NotFoundException("CLIENT_NOT_FOUND"))
       ELSE Goto(p, "dc_commit", [NoSess EXCEPT !.deleted_clients = {client_id}])

\* delete_client, db.commit(): the DELETE of the client row goes out alone
\* (Client.invoices is passive_deletes=True and was not loaded, so no invoice
\* is touched by the session), and the foreign key of Invoice.client_id
\* (ondelete='RESTRICT') refuses it when the store enforces foreign keys.
\* Whether it does is a matter of the store: SQLite, the DATABASE_URL of
\* settings.py, enforces none unless PRAGMA foreign_keys is switched on for
\* the connection, and the program never does that.
DelC_Commit(p, foreign_keys) ==
    /\ pc[p] = "dc_commit"
    /\ LET c == req[p].client_id
           referenced == \E i \in InvoiceIds :
                            invoice[i].exists /\ invoice[i].client_id = c
       IN  IF foreign_keys /\ referenced
           THEN /\ Abort(p, sess[p], IntegrityError)
                /\ UNCHANGED <<req, seq>>
           ELSE /\ SetStore(Commit(sess[p]))
                /\ pc' = [pc EXCEPT ![p] = "done"]
                /\ sess' = [sess EXCEPT ![p] = NoSess]
                /\ result' = [result EXCEPT ![p] = Ok]
                /\ UNCHANGED <<req, seq, year, jobs, celery>>

DeleteClient(p, enforcing) ==
    \/ \E c \in ClientIds : DelC_Select(p, c)
    \/ \E fk \in enforcing : DelC_Commit(p, fk)

\* ------------------------------------------------------------ specifications
\* The requests a specification starts draw their arguments from the sets it
\* names.
CreateInvoice(p, types, lists) ==
    \/ \E c \in ClientIds, t \in types, its \in lists :
          \E f \in 0..Len(its) : CI_ValidateClient(p, c, t, its, f)
    \/ CI_Insert(p)

ChangeStatus(p) ==
    \E i \in InvoiceIds, st \in InvoiceStatus : CS_Select(p, i, st)

UpdateInvoice(p) ==
    \E i \in InvoiceIds, st \in InvoiceStatus \cup {Unset, None} : UI_Select(p, i, st)

UpdateInvoiceFields(p, statuses, types, values) ==
    \E i \in InvoiceIds, st \in statuses, t \in types, v \in values :
        UI_Update(p, i, st, t, v)

AddItem(p, inputs) ==
    \E i \in InvoiceIds, it \in inputs : AI_Insert(p, i, it)

UpdateItem(p, qtys, rates) ==
    \E id \in ItemIds, q \in qtys, r \in rates : UpdI_Update(p, id, q, r)

DeleteItem(p, overrides) ==
    \/ \E id \in ItemIds, allow \in overrides : DI_Select(p, id, allow)
    \/ DI_Count(p)

CreatePayment(p, updates, refs, statuses) ==
    \/ \E u \in updates, i \in InvoiceIds, a \in PaymentAmounts,
          ref \in refs, st \in statuses :
          CP_SelectInvoice(p, u, i, a, ref, st)
    \/ CP_Insert(p)

UpdatePayment(p, amounts, statuses) ==
    \E id \in PaymentIds, a \in amounts, st \in statuses : UpdP_Update(p, id, a, st)

DeletePayment(p) ==
    \E id \in PaymentIds : DP_Select(p, id)

DeleteInvoice(p) ==
    \E i \in InvoiceIds, allow \in BOOLEAN : DelInv_Select(p, i, allow)

OneItem == [qty |-> 1, rate |-> 100]
FreeItem == [qty |-> 1, rate |-> 0]

\* The invoice numbers a request may carry: free text, or text that has the
\* form of a generated number.
SuppliedNumbers ==
    {DefaultNumber} \cup
    {<<"INV", CurrentYear, ZeroPad(Digits(i), 6)>> : i \in InvoiceIds}

CreateInvoiceNumbered(p, numbers) ==
    \/ \E c \in ClientIds, no \in numbers :
          CI_Begin(p, c, CLIENT_TYPE_STUDENT, <<OneItem>>, 0, no, None, None, FALSE)
    \/ CI_Insert(p)

\* generate_and_send_invoice_task: a worker takes a queued job and looks the
\* invoice up in a session of its own; an invoice it does not find ends the
\* job for good (Reject with requeue=False).
Worker ==
    \E j \in jobs :
        /\ j.state = "queued"
        /\ jobs' = (jobs \ {j}) \cup
                   {[j EXCEPT !.state = IF invoice[j.invoice_id].exists
                                        THEN "sent" ELSE "rejected"]}
        /\ UNCHANGED <<store, seq, pc, req, sess, result, year, celery>>

\* create_invoice as the route calls it: auto_generate_pdf and auto_send_email
\* are True.
CreateInvoiceRoute(p) ==
    \/ \E c \in ClientIds, its \in ItemLists({OneItem}) :
          \E f \in 0..Len(its) :
              CI_Begin(p, c, CLIENT_TYPE_STUDENT, its, f, DefaultNumber,
                       None, None, TRUE)
    \/ CI_Insert(p)

\* track_invoice_view: the count the session loaded, plus one. The column's
\* default gives every inserted row the count 0, so the branch for a count
\* that is None is not taken.

track_invoice_view(s) ==
    [s EXCEPT !.viewed = TRUE,
              !.view_count = s.loaded.view_count + 1]

\* get_invoice_by_id, lines 292-317 with track_view True as the route calls
\* it: the invoice is loaded with its items, and track_invoice_view sets the
\* count in the session, inside a scope of its own.
GI_Get(p, invoice_id) ==
    /\ pc[p] = "idle"
    /\ invoice[invoice_id].exists => invoice[invoice_id].view_count < MaxViews
    /\ req' = [req EXCEPT ![p] =
                 [NoReq EXCEPT !.op = "get_invoice_by_id", !.invoice_id = invoice_id]]
    /\ UNCHANGED seq
    /\ IF ~invoice[invoice_id].exists
       THEN Abort(p, NoSess, NotFoundException("INVOICE_NOT_FOUND"))
       ELSE Goto(p, "gi_commit",
                 track_invoice_view(
                     [NoSess EXCEPT !.invoice_id = invoice_id,
                                    !.loaded = invoice[invoice_id],
                                    !.status = invoice[invoice_id].status,
                                    !.loaded_items = VisibleItems(NoSess, invoice_id)]))

\* get_invoice_by_id, lines 317-322: the scope commits the view, then
\* calculate_invoice_totals runs over what was loaded, outside the scope, so
\* what it raises reaches the caller as it is and the view stays counted.
GI_Commit(p) ==
    /\ pc[p] = "gi_commit"
    /\ LET s == sess[p]
           totals == calculate_invoice_totals(s.loaded, s.loaded_items)
       IN  /\ SetStore(Commit(s))
           /\ pc' = [pc EXCEPT ![p] = "done"]
           /\ sess' = [sess EXCEPT ![p] = NoSess]
           /\ result' = [result EXCEPT ![p] =
                           IF totals.raised
                           THEN Translate(InvalidOperation)
                           ELSE [Ok EXCEPT !.totals =
                                    [subtotal |-> totals.subtotal,
                                     discount |-> totals.discount,
                                     total |-> totals.total,
                                     vat |-> totals.vat,
                                     vat_total |-> totals.vat_total]]]
           /\ UNCHANGED <<req, seq, year, jobs, celery>>

GetInvoice(p) ==
    \/ \E i \in InvoiceIds : GI_Get(p, i)
    \/ GI_Commit(p)

\* The services of the program, their requests interleaved statement by
\* statement; the worker's tasks have specifications of their own.
Next ==
    \E p \in Procs :
        \/ CreateInvoice(p, ClientTypes, ItemLists(ItemInputs))
        \/ ChangeStatus(p)
        \/ UpdateInvoice(p)
        \/ GetInvoice(p)
        \/ AddItem(p, ItemInputs)
        \/ UpdateItem(p, {LeftOut, Null, 1, 2}, {LeftOut, Null, 0, 100})
        \/ DeleteItem(p, BOOLEAN)
        \/ CreatePayment(p, BOOLEAN, ReferenceNumbers, PaymentInputStatus)
        \/ UpdatePayment(p, {LeftOut, 10000}, PaymentInputStatus \cup {Unset})
        \/ DeletePayment(p)
        \/ DeleteInvoice(p)
        \/ DeleteClient(p, BOOLEAN)
        \/ PS_UpdateStatus(p)
        \/ TS_Commit(p)
        \/ Return(p)

Spec == Init /\ [][Next]_vars

\* One request at a time: the only client is r1.
SeqProcs == {"r1"}

\* Invoice creation and the two explicit status paths, one request at a time.
NextStatusSeq ==
    \E p \in SeqProcs :
        \/ CreateInvoice(p, {CLIENT_TYPE_STUDENT}, {<<OneItem>>})
        \/ ChangeStatus(p)
        \/ UpdateInvoice(p)
        \/ TS_Commit(p)
        \/ Return(p)

SpecStatusSeq == Init /\ [][NextStatusSeq]_vars

\* Invoice creation and the item operations, interleaved; no request sets
\* the last-item override.
NextItems ==
    \E p \in Procs :
        \/ CreateInvoice(p, {CLIENT_TYPE_STUDENT}, ItemLists({OneItem}))
        \/ AddItem(p, {OneItem})
        \/ DeleteItem(p, {FALSE})
        \/ TS_Commit(p)
        \/ Return(p)

SpecItems == Init /\ [][NextItems]_vars

\* The item operations one request at a time, with and without the override.
NextItemsSeq ==
    \E p \in SeqProcs :
        \/ CreateInvoice(p, {CLIENT_TYPE_STUDENT}, ItemLists({OneItem}))
        \/ AddItem(p, {OneItem})
        \/ DeleteItem(p, BOOLEAN)
        \/ TS_Commit(p)
        \/ Return(p)

SpecItemsSeq == Init /\ [][NextItemsSeq]_vars

\* Invoice creation and payment creation, interleaved.
NextPay ==
    \E p \in Procs :
        \/ CreateInvoice(p, {CLIENT_TYPE_STUDENT}, {<<OneItem>>})
        \/ CreatePayment(p, BOOLEAN, {None, "R1"}, {"completed"})
        \/ PS_UpdateStatus(p)
        \/ TS_Commit(p)
        \/ Return(p)

SpecPay == Init /\ [][NextPay]_vars

\* Invoice creation, payment creation with and without the status update,
\* and payment deletion, one request at a time, over invoices with a positive
\* and with a zero total; the payments carry no reference.
NextPaySeq ==
    \E p \in SeqProcs :
        \/ CreateInvoice(p, {CLIENT_TYPE_STUDENT}, {<<OneItem>>, <<FreeItem>>})
        \/ CreatePayment(p, BOOLEAN, {None}, PaymentInputStatus)
        \/ DeletePayment(p)
        \/ PS_UpdateStatus(p)
        \/ TS_Commit(p)
        \/ Return(p)

SpecPaySeq == Init /\ [][NextPaySeq]_vars

\* The sets of items and payments an invoice can come to have: payments are
\* created (completed or cancelled) and deleted, one request at a time.
NextPayTotals ==
    \E p \in SeqProcs :
        \/ CreateInvoice(p, {CLIENT_TYPE_STUDENT}, {<<OneItem>>, <<FreeItem>>})
        \/ CreatePayment(p, {TRUE}, {None}, PaymentInputStatus)
        \/ DeletePayment(p)
        \/ PS_UpdateStatus(p)
        \/ TS_Commit(p)
        \/ Return(p)

SpecPayTotals == Init /\ [][NextPayTotals]_vars

\* Payment creation by both operations, one request at a time, with no
\* reference, an empty one and the reference R1.
NextPayRefSeq ==
    \E p \in SeqProcs :
        \/ CreateInvoice(p, {CLIENT_TYPE_STUDENT}, {<<OneItem>>})
        \/ CreatePayment(p, BOOLEAN, ReferenceNumbers, {"completed"})
        \/ PS_UpdateStatus(p)
        \/ TS_Commit(p)
        \/ Return(p)

SpecPayRefSeq == Init /\ [][NextPayRefSeq]_vars

\* ------------------------------------------------------------------ claims
\* A request of p reaches its caller in this step.
Finishes(p) == pc[p] # "done" /\ pc'[p] = "done"

\* The transition table as the specification states it.
TableOfTheSpec(from) ==
    CASE from = "draft" -> {"sent", "cancelled"}
      [] from = "sent" -> {"viewed", "paid", "partially_paid", "overdue", "cancelled"}
      [] from = "viewed" -> {"paid", "partially_paid", "overdue", "cancelled"}
      [] from = "partially_paid" -> {"paid", "overdue", "cancelled"}
      [] from = "overdue" -> {"paid", "partially_paid", "cancelled"}
      [] OTHER -> {}

\* C1: change_invoice_status on an invoice whose stored status is from, asked
\* for to, succeeds and stores to exactly when to = from or (from, to) is in
\* the table; otherwise it fails with a validation error and the stored
\* status stays from.
C1_ChangeStatusFollowsTable ==
    [][\A p \in Procs :
          LET i == req'[p].invoice_id
              from == invoice[i].status
              to == req'[p].status
          IN  (/\ Finishes(p)
               /\ req'[p].op = "change_invoice_status"
               /\ invoice[i].exists)
              => IF to = from \/ to \in TableOfTheSpec(from)
                 THEN result'[p] = Ok /\ invoice'[i].status = to
                 ELSE /\ result'[p].exc = "ValidationException"
                      /\ invoice'[i].status = from]_vars

\* A same-status request on a paid invoice succeeded.
C1_Witness ==
    \E p \in Procs :
        /\ pc[p] = "done"
        /\ req[p].op = "change_invoice_status"
        /\ req[p].status = PAID
        /\ result[p] = Ok
        /\ invoice[req[p].invoice_id].status = PAID
        /\ \E q \in InvoiceIds : invoice[q].exists /\ invoice[q].status = OVERDUE

Terminal == {"paid", "cancelled"}

\* C2: over change_invoice_status and update_invoice requests, once an
\* invoice's stored status is paid or cancelled, a request that names another
\* status fails, and no step changes the stored status.
C2_TerminalIsFinal ==
    [][/\ \A i \in InvoiceIds :
             (invoice[i].exists /\ invoice[i].status \in Terminal)
             => invoice'[i].status = invoice[i].status
       /\ \A p \in Procs :
             LET i == req'[p].invoice_id
             IN  (/\ Finishes(p)
                  /\ req'[p].op \in {"change_invoice_status", "update_invoice"}
                  /\ invoice[i].exists
                  /\ invoice[i].status \in Terminal
                  /\ req'[p].status \in InvoiceStatus \ {invoice[i].status})
                 => result'[p].exc # "none"]_vars

\* update_invoice asked to send a cancelled invoice and was refused.
C2_Witness ==
    \E p \in Procs :
        /\ pc[p] = "done"
        /\ req[p].op = "update_invoice"
        /\ req[p].status = SENT
        /\ result[p].exc = "ValidationException"
        /\ invoice[req[p].invoice_id].status = CANCELLED

ItemsOf(rows, i) == {r \in rows : r.invoice_id = i}

\* The sum of the amounts of the payments that are not cancelled.
RECURSIVE AppliedUpTo(_, _)
AppliedUpTo(rows, n) ==
    IF n = 0 THEN 0
    ELSE AppliedUpTo(rows, n - 1)
         + (IF \E r \in rows : r.id = n /\ r.status # "cancelled"
            THEN (CHOOSE r \in rows : r.id = n).amount_paid
            ELSE 0)

Applied(rows) == AppliedUpTo(rows, MaxPayments)

GrandTotal(inv, items) == calculate_invoice_totals(inv, items).vat_total

\* The aggregate payment state of a total T with P applied.
StateOfTheSpec(T, P) ==
    IF T - P = 0 THEN "fully_paid"
    ELSE IF T - P < 0 THEN "overpaid"
    ELSE IF T - P < T THEN "partially_paid"
    ELSE "unpaid"

\* C3: when create_payment_and_update_invoice or
\* delete_payment_and_update_invoice commits, the invoice's status is paid if
\* the aggregate state over the payments then stored is fully_paid or
\* overpaid, partially_paid if it is partially_paid, and what it was before
\* if it is unpaid.
C3_StatusFollowsPayments ==
    [][\A p \in Procs :
          (/\ Finishes(p)
           /\ result'[p] = Ok
           /\ req'[p].op \in {"create_payment_and_update_invoice",
                              "delete_payment_and_update_invoice"})
          => LET i == IF req'[p].op = "create_payment_and_update_invoice"
                      THEN req'[p].invoice_id
                      ELSE (CHOOSE r \in payment : r.id = req'[p].payment_id).invoice_id
                 state == StateOfTheSpec(GrandTotal(invoice'[i], ItemsOf(item', i)),
                                         Applied(ItemsOf(payment', i)))
             IN  invoice'[i].status =
                    CASE state \in {"fully_paid", "overpaid"} -> PAID
                      [] state = "partially_paid" -> PARTIALLY_PAID
                      [] OTHER -> invoice[i].status]_vars

\* Deleting one of two payments left an invoice partially paid.
C3_Witness ==
    \E p \in Procs :
        /\ pc[p] = "done"
        /\ req[p].op = "delete_payment_and_update_invoice"
        /\ result[p] = Ok
        /\ \E i \in InvoiceIds :
              /\ invoice[i].exists
              /\ invoice[i].status = PARTIALLY_PAID
              /\ ~\E r \in payment : r.id = req[p].payment_id
              /\ Cardinality(ItemsOf(payment, i)) = 2
              /\ Applied(ItemsOf(payment, i)) = 5000

\* The four cases of the aggregate state, the unpaid one as given.
StateCases(T, remaining, state, unpaid_when) ==
    /\ unpaid_when => state = "unpaid"
    /\ remaining = 0 => state = "fully_paid"
    /\ remaining < 0 => state = "overpaid"
    /\ (0 < remaining /\ remaining < T) => state = "partially_paid"

\* C4 (amended): for every stored invoice of grand total T >= 0 and its
\* payments, with P the sum of the payments that are not cancelled, the
\* remaining balance is T - P and the aggregate state is fully_paid when the
\* remaining balance is 0, overpaid when it is negative, partially_paid when
\* it lies strictly between 0 and T, and unpaid when it equals T and T > 0.
C4_AggregateState ==
    \A i \in InvoiceIds :
        invoice[i].exists
        => LET items == ItemsOf(item, i)
               payments == ItemsOf(payment, i)
               T == GrandTotal(invoice[i], items)
               remaining == calculate_remaining_balance(invoice[i], items, payments)
               state == determine_payment_status(invoice[i], items, payments)
           IN  T >= 0
               => /\ remaining = T - Applied(payments)
                  /\ StateCases(T, remaining, state, remaining = T /\ T > 0)

\* C4 as stated: unpaid whenever the remaining balance equals T.
C4_AsStated ==
    \A i \in InvoiceIds :
        invoice[i].exists
        => LET items == ItemsOf(item, i)
               payments == ItemsOf(payment, i)
               T == GrandTotal(invoice[i], items)
               remaining == calculate_remaining_balance(invoice[i], items, payments)
               state == determine_payment_status(invoice[i], items, payments)
           IN  T >= 0
               => /\ remaining = T - Applied(payments)
                  /\ StateCases(T, remaining, state, remaining = T)

\* An invoice with a cancelled payment and an applied one is partially paid.
C4_Witness ==
    \E i \in InvoiceIds :
        /\ invoice[i].exists
        /\ GrandTotal(invoice[i], ItemsOf(item, i)) = 10000
        /\ \E r \in ItemsOf(payment, i) : r.status = "cancelled"
        /\ Applied(ItemsOf(payment, i)) = 5000
        /\ determine_payment_status(invoice[i], ItemsOf(item, i), ItemsOf(payment, i))
              = "partially_paid"

\* C5: create_invoice stores the invoice header with its invoice number and
\* every requested item, or stores nothing: when the client does not exist or
\* the insertion of an item fails, no invoice row and no item row is left.
C5_CreateInvoiceAllOrNothing ==
    [][\A p \in Procs :
          (Finishes(p) /\ req'[p].op = "create_invoice")
          => LET r == req'[p]
             IN  IF r.client_id \notin client \/ r.fail_at # 0
                 THEN /\ result'[p].exc # "none"
                      /\ invoice' = invoice
                      /\ item' = item
                 ELSE /\ result'[p] = Ok
                      /\ item \subseteq item'
                      /\ Cardinality(item' \ item) = Len(r.items)
                      /\ \E i \in InvoiceIds :
                            /\ ~invoice[i].exists
                            /\ invoice'[i].exists
                            /\ invoice'[i].invoice_no # <<>>
                            /\ \A j \in InvoiceIds \ {i} : invoice'[j] = invoice[j]
                            /\ \A row \in item' \ item : row.invoice_id = i
                            /\ {[qty |-> row.qty, rate |-> row.rate] : row \in item' \ item}
                                  = {r.items[k] : k \in 1..Len(r.items)}]_vars

\* The second item of a request was refused and nothing of it is stored.
C5_Witness ==
    \E p \in Procs :
        /\ pc[p] = "done"
        /\ req[p].op = "create_invoice"
        /\ req[p].fail_at = 2
        /\ result[p].exc # "none"
        /\ seq.invoice = 2
        /\ \A i \in InvoiceIds : ~invoice[i].exists
        /\ item = {}

\* C6 as stated: when a step inside transaction_scope raises, the committed
\* state afterwards is the one before the scope was entered and the error
\* reaches the caller, an integrity violation as a conflict error.
C6_AsStated ==
    [][\A p \in Procs :
          (Finishes(p) /\ result'[p].exc # "none")
          => /\ store' = store
             /\ result'[p].raised = "IntegrityError"
                   => result'[p].exc = "ConflictException"
             /\ result'[p].raised \in DefinedExceptions
                   => result'[p].exc = result'[p].raised]_vars

\* C7 as stated: over create_invoice, add_item_to_invoice and delete_item
\* without the override, interleaved, every stored invoice has an item.
C7_AsStated ==
    \A i \in InvoiceIds : invoice[i].exists => ItemsOf(item, i) # {}

\* C8: delete_item without the override on the only item of an invoice fails
\* with the conflict LAST_ITEM_DELETION_FORBIDDEN and the item stays; with
\* the override, or with two or more items, the item is deleted.
C8_LastItemKept ==
    [][\A p \in Procs :
          (/\ Finishes(p)
           /\ req'[p].op = "delete_item"
           /\ \E row \in item : row.id = req'[p].item_id)
          => LET row == CHOOSE x \in item : x.id = req'[p].item_id
                 n == Cardinality(ItemsOf(item, row.invoice_id))
             IN  IF ~req'[p].allow /\ n = 1
                 THEN /\ result'[p].exc = "ConflictException"
                      /\ result'[p].code = "LAST_ITEM_DELETION_FORBIDDEN"
                      /\ item' = item
                 ELSE /\ result'[p] = Ok
                      /\ item' = item \ {row}]_vars

\* The deletion of an only item was refused.
C8_Witness ==
    \E p \in Procs :
        /\ pc[p] = "done"
        /\ req[p].op = "delete_item"
        /\ ~req[p].allow
        /\ result[p].code = "LAST_ITEM_DELETION_FORBIDDEN"
        /\ \E row \in item :
              /\ row.id = req[p].item_id
              /\ ItemsOf(item, row.invoice_id) = {row}

\* C9: a payment whose non-empty reference number another payment of the
\* same invoice carries is refused with the conflict
\* DUPLICATE_PAYMENT_REFERENCE and no row is added; the same reference on
\* another invoice, and payments without reference, are stored.
C9_DuplicateReferenceRefused ==
    [][\A p \in Procs :
          (/\ Finishes(p)
           /\ req'[p].op \in {"create_payment", "create_payment_and_update_invoice"}
           /\ invoice[req'[p].invoice_id].exists)
          => LET r == req'[p]
                 duplicate ==
                    /\ r.reference_number \notin {None, ""}
                    /\ \E row \in ItemsOf(payment, r.invoice_id) :
                          row.reference_number = r.reference_number
             IN  IF duplicate
                 THEN /\ result'[p].exc = "ConflictException"
                      /\ result'[p].code = "DUPLICATE_PAYMENT_REFERENCE"
                      /\ payment' = payment
                 ELSE /\ result'[p] = Ok
                      /\ \E row \in payment' \ payment :
                            /\ payment' = payment \cup {row}
                            /\ row.invoice_id = r.invoice_id
                            /\ row.reference_number = r.reference_number
                            /\ row.amount_paid = r.amount_paid]_vars

\* A reference both invoices carry was refused a second time on one of them.
C9_Witness ==
    \E p \in Procs :
        /\ pc[p] = "done"
        /\ req[p].op = "create_payment"
        /\ req[p].reference_number = "R1"
        /\ result[p].code = "DUPLICATE_PAYMENT_REFERENCE"
        /\ \A i \in InvoiceIds :
              \E row \in ItemsOf(payment, i) : row.reference_number = "R1"
        /\ Cardinality(payment) = 2

\* C10 as stated: of the payment creations that carry one non-empty
\* reference number for one invoice at the same time, at most one commits.
C10_AsStated ==
    \A a \in payment, b \in payment :
        (/\ a.invoice_id = b.invoice_id
         /\ a.reference_number = b.reference_number
         /\ a.reference_number \notin {None, ""})
        => a = b

\* Invoice creation, payment creation and invoice deletion, one request at a
\* time; the payments are completed or cancelled.
NextDeleteSeq ==
    \E p \in SeqProcs :
        \/ CreateInvoice(p, {CLIENT_TYPE_STUDENT}, ItemLists({OneItem}))
        \/ CreatePayment(p, {FALSE}, {None}, PaymentInputStatus)
        \/ DeleteInvoice(p)
        \/ TS_Commit(p)
        \/ Return(p)

SpecDeleteSeq == Init /\ [][NextDeleteSeq]_vars

\* Invoice creation and payment creation with the status update, requests
\* overlapping, the payments without reference number.
NextPayRace ==
    \E p \in Procs :
        \/ CreateInvoice(p, {CLIENT_TYPE_STUDENT}, {<<OneItem>>})
        \/ CreatePayment(p, {TRUE}, {None}, {"completed"})
        \/ PS_UpdateStatus(p)
        \/ TS_Commit(p)
        \/ Return(p)

SpecPayRace == Init /\ [][NextPayRace]_vars

\* C11: under every interleaving of concurrent
\* create_payment_and_update_invoice requests, the payment of a request that
\* returns successfully is in the committed state and stays there: no
\* payment row is dropped or overwritten by another request.
C11_NoPaymentLost ==
    [][/\ payment \subseteq payment'
       /\ \A p \in Procs :
             (/\ Finishes(p)
              /\ result'[p] = Ok
              /\ req'[p].op = "create_payment_and_update_invoice")
             => \E row \in payment' \ payment :
                   /\ row.invoice_id = req'[p].invoice_id
                   /\ row.amount_paid = req'[p].amount_paid
                   /\ row.reference_number = req'[p].reference_number]_vars

\* Two overlapping requests have both returned, both payments are stored and
\* the status is the stale partially_paid.
C11_Witness ==
    /\ \A p \in Procs :
          /\ pc[p] = "done"
          /\ req[p].op = "create_payment_and_update_invoice"
          /\ req[p].invoice_id = 1
          /\ result[p] = Ok
    /\ Cardinality(ItemsOf(payment, 1)) = 2
    /\ invoice[1].status = PARTIALLY_PAID

\* C12: delete_invoice without the override on an invoice that has a payment
\* row of any status fails with the conflict INVOICE_HAS_PAYMENTS and deletes
\* nothing; otherwise the invoice goes with all its items and payments, and
\* no item or payment row references it afterwards.
C12_DeleteInvoice ==
    [][\A p \in Procs :
          (/\ Finishes(p)
           /\ req'[p].op = "delete_invoice"
           /\ invoice[req'[p].invoice_id].exists)
          => LET i == req'[p].invoice_id
             IN  IF ~req'[p].allow /\ ItemsOf(payment, i) # {}
                 THEN /\ result'[p].exc = "ConflictException"
                      /\ result'[p].code = "INVOICE_HAS_PAYMENTS"
                      /\ store' = store
                 ELSE /\ result'[p] = Ok
                      /\ ~invoice'[i].exists
                      /\ item' = item \ ItemsOf(item, i)
                      /\ payment' = payment \ ItemsOf(payment, i)
                      /\ \A j \in InvoiceIds \ {i} : invoice'[j] = invoice[j]]_vars

\* An invoice with two items and a cancelled payment was deleted with the
\* override; the other invoice keeps its rows.
C12_Witness ==
    \E p \in Procs :
        /\ pc[p] = "done"
        /\ req[p].op = "delete_invoice"
        /\ req[p].allow
        /\ result[p] = Ok
        /\ ~invoice[req[p].invoice_id].exists
        /\ seq.item = 4
        /\ seq.payment = 3
        /\ Cardinality(item) = 1
        /\ \E r \in payment : r.status = "cancelled"

\* Partial updates of the status and of the discount configuration, one
\* request at a time.
NextUpdateSeq ==
    \E p \in SeqProcs :
        \/ CreateInvoice(p, {CLIENT_TYPE_STUDENT}, {<<OneItem>>})
        \/ UpdateInvoiceFields(p, {Unset, None, DRAFT, SENT, PAID},
                               {Unset, "fixed"}, {Unset, None, "10"})
        \/ TS_Commit(p)
        \/ Return(p)

SpecUpdateSeq == Init /\ [][NextUpdateSeq]_vars

\* C13: update_invoice changes the supplied fields only and leaves the
\* omitted ones as they were; a supplied status is checked against the
\* transition table first, and when the check fails the request fails and no
\* field of the invoice changes, the other supplied fields included.
C13_PartialUpdate ==
    [][\A p \in Procs :
          (/\ Finishes(p)
           /\ req'[p].op = "update_invoice"
           /\ invoice[req'[p].invoice_id].exists)
          => LET r == req'[p]
                 old == invoice[r.invoice_id]
                 new == invoice'[r.invoice_id]
                 refused == /\ r.status \in InvoiceStatus
                            /\ r.status # old.status
                            /\ r.status \notin TableOfTheSpec(old.status)
             IN  /\ item' = item
                 /\ payment' = payment
                 /\ \A j \in InvoiceIds \ {r.invoice_id} : invoice'[j] = invoice[j]
                 /\ refused => result'[p].exc = "ValidationException"
                 /\ IF result'[p].exc # "none"
                    THEN new = old
                    ELSE new = [old EXCEPT
                                  !.status = IF r.status = Unset THEN @ ELSE r.status,
                                  !.disc_type = IF r.disc_type = Unset THEN @
                                                ELSE r.disc_type,
                                  !.disc_value = IF r.disc_value = Unset THEN @
                                                 ELSE r.disc_value]
                 /\ (~refused /\ r.status # None) => result'[p] = Ok]_vars

\* A request that set the discount type and left status and value out has
\* changed the type alone.
C13_Witness ==
    \E p \in Procs :
        /\ pc[p] = "done"
        /\ req[p].op = "update_invoice"
        /\ req[p].status = Unset
        /\ req[p].disc_type = "fixed"
        /\ req[p].disc_value = Unset
        /\ result[p] = Ok
        /\ LET row == invoice[req[p].invoice_id]
           IN  /\ row.status = SENT
               /\ row.disc_type = "fixed"
               /\ row.disc_value = None

\* Invoices created and deleted by concurrent requests while the year may
\* change, the requests carrying numbers of their own.
NextNumbers ==
    \/ Tick
    \/ \E p \in Procs :
          \/ CreateInvoiceNumbered(p, SuppliedNumbers)
          \/ DeleteInvoice(p)
          \/ TS_Commit(p)
          \/ Return(p)

SpecNumbers == Init /\ [][NextNumbers]_vars

\* The number of invoice i issued in year y, as the specification writes it:
\* INV, the year, the id zero-padded to six digits (ids below ten here).
NumberOfTheSpec(y, i) == <<"INV", y, <<0, 0, 0, 0, 0, i>>>>

\* C14: every committed invoice carries the number INV-<year>-<id padded to
\* six digits>, for a year the server has been in, whatever number the request
\* that created it supplied, and no two committed invoices share a number.
C14_InvoiceNumbers ==
    /\ \A i \in InvoiceIds :
          invoice[i].exists =>
              \E y \in CurrentYear..year : invoice[i].invoice_no = NumberOfTheSpec(y, i)
    /\ \A i, j \in InvoiceIds :
          (invoice[i].exists /\ invoice[j].exists /\ i # j)
              => invoice[i].invoice_no # invoice[j].invoice_no

\* Two invoices are committed, the second one created in the next year by a
\* request that supplied a number of the generated form.
C14_Witness ==
    /\ invoice[1].exists
    /\ invoice[2].exists
    /\ invoice[2].invoice_no = NumberOfTheSpec(CurrentYear + 1, 2)
    /\ \E p \in Procs :
          /\ pc[p] = "done"
          /\ req[p].op = "create_invoice"
          /\ req[p].invoice_no = NumberOfTheSpec(CurrentYear, 2)
          /\ result[p] = Ok

\* Invoice creation and the two explicit status paths, requests overlapping.
NextStatus ==
    \E p \in Procs :
        \/ CreateInvoice(p, {CLIENT_TYPE_STUDENT}, {<<OneItem>>})
        \/ ChangeStatus(p)
        \/ UpdateInvoice(p)
        \/ TS_Commit(p)
        \/ Return(p)

SpecStatus == Init /\ [][NextStatus]_vars

\* C15 as stated: with change_invoice_status and update_invoice requests
\* overlapping on one invoice, every change of the committed status goes from
\* the status committed before it to a status the transition table allows
\* from there.
C15_AsStated ==
    [][\A i \in InvoiceIds :
          (/\ invoice[i].exists
           /\ invoice'[i].exists
           /\ invoice'[i].status # invoice[i].status)
          => invoice'[i].status \in TableOfTheSpec(invoice[i].status)]_vars

\* Invoices created through the route by overlapping requests, the worker
\* running beside them; a commit may fail.
NextDispatch ==
    \/ Worker
    \/ \E p \in Procs :
          \/ CreateInvoiceRoute(p)
          \/ TS_Commit(p)
          \/ TS_CommitFails(p)
          \/ Return(p)

SpecDispatch == Init /\ [][NextDispatch]_vars

\* C16 as stated: the job of create_invoice is dispatched outside the
\* transaction, so every job that exists is for an invoice that is committed
\* (none is sent before the commit, none is left by a rollback), and the
\* worker finds the invoice of every job it takes.
C16_AsStated ==
    \A j \in jobs : invoice[j.invoice_id].exists /\ j.state # "rejected"

\* ------------------------------------------------------ the calculator alone
\* The inputs of the calculator: items of one and two currency units, the
\* discount types and values a request can store (InvoiceBase takes any short
\* string for both), the three client types.
CalcItems == {[qty |-> 1, rate |-> 1], [qty |-> 1, rate |-> 2]}
CalcItemLists == UNION {[1..n -> CalcItems] : n \in 0..MaxCreateItems}
CalcDiscountTypes == {None, "fixed", "percent", "percentage", "bogus"}
CalcDiscountValues == {None, "", "0", "0.5", "10", "12.5", "100", "150", "-5", "abc"}
CalcClientTypes == {CLIENT_TYPE_STUDENT, CLIENT_TYPE_INDIVIDUAL, CLIENT_TYPE_CORPORATE}

\* The store holds invoice 1 as create_invoice and the item operations can
\* leave it: its items in the order of their insertion, a discount
\* configuration and a client type.
InitCalc ==
    \E its \in CalcItemLists, t \in CalcDiscountTypes, v \in CalcDiscountValues,
       c \in CalcClientTypes :
        /\ client = ExistingClients
        /\ invoice = [i \in InvoiceIds |->
                        IF i = 1
                        THEN [exists |-> TRUE, status |-> DRAFT,
                              invoice_no |-> <<"INV", CurrentYear, ZeroPad(Digits(1), 6)>>,
                              client_id |-> 1, client_type |-> c,
                              disc_type |-> t, disc_value |-> v,
                              view_count |-> 0, send_reminders |-> FALSE,
                              reminder_frequency |-> Null,
                              reminder_logs |-> NoLogs]
                        ELSE NoInvoice]
        /\ item = {[id |-> k, invoice_id |-> 1, qty |-> its[k].qty, rate |-> its[k].rate,
                    amount |-> ItemAmount(its[k].qty, its[k].rate)] : k \in 1..Len(its)}
        /\ payment = {}
        /\ seq = [invoice |-> 2, item |-> Len(its) + 1, payment |-> 1]
        /\ pc = [p \in Procs |-> "idle"]
        /\ req = [p \in Procs |-> NoReq]
        /\ sess = [p \in Procs |-> NoSess]
        /\ result = [p \in Procs |-> NoResult]
        /\ year = CurrentYear
        /\ jobs = {}
        /\ celery = NoCelery

NextCalc ==
    \E p \in SeqProcs :
        \/ GetInvoice(p)
        \/ Return(p)

SpecCalc == InitCalc /\ [][NextCalc]_vars

\* The answer of a get_invoice_by_id for invoice 1 has reached its caller.
Got(p) ==
    /\ pc[p] = "done"
    /\ req[p].op = "get_invoice_by_id"
    /\ req[p].invoice_id = 1

\* The amount of the item with id k of invoice i, in cents; zero when there
\* is no such item.
AmountOfItem(i, k) ==
    IF \E r \in item : r.id = k /\ r.invoice_id = i
    THEN (CHOOSE r \in item : r.id = k /\ r.invoice_id = i).amount
    ELSE 0

RECURSIVE AmountsUpTo(_, _)
AmountsUpTo(i, k) == IF k = 0 THEN 0 ELSE AmountOfItem(i, k) + AmountsUpTo(i, k - 1)

\* The strings of the model that are the text of a number.
NumbersOfTheSpec == {"0", "0.5", "10", "12.5", "50", "100", "150", "-5"}

\* The discount value of the invoice is one the calculator has to parse, and
\* it is not the text of a number.
UnparsableDiscount(inv) ==
    /\ inv.disc_type \in {"fixed", "percent", "percentage"}
    /\ inv.disc_value \notin {None, ""}
    /\ inv.disc_value \notin NumbersOfTheSpec

\* C17: the subtotal calculate_invoice_totals returns is the sum of the
\* stored amounts of the invoice's items, in whatever order they were
\* inserted, and an invoice without items gets zero for all five values
\* (invoices whose discount value cannot be parsed are the matter of C20).
C17_SubtotalIsSum ==
    \A p \in Procs :
        Got(p) =>
            /\ ItemsOf(item, 1) = {}
                 => /\ result[p].exc = "none"
                    /\ result[p].totals =
                          [subtotal |-> 0, discount |-> 0, total |-> 0, vat |-> 0,
                           vat_total |-> 0]
            /\ ~UnparsableDiscount(invoice[1])
                 => /\ result[p].exc = "none"
                    /\ result[p].totals.subtotal = AmountsUpTo(1, MaxItems)

\* The totals of an invoice whose two items were inserted dearest first.
C17_Witness ==
    \E p \in Procs :
        /\ Got(p)
        /\ result[p].exc = "none"
        /\ AmountOfItem(1, 1) = 200
        /\ AmountOfItem(1, 2) = 100
        /\ result[p].totals.subtotal = 300

\* The numbers the strings of the model are the text of, in tenths.
TenthsOfTheSpec ==
    [s \in NumbersOfTheSpec |->
        CASE s = "0" -> 0
          [] s = "0.5" -> 5
          [] s = "10" -> 100
          [] s = "12.5" -> 125
          [] s = "50" -> 500
          [] s = "100" -> 1000
          [] s = "150" -> 1500
          [] s = "-5" -> -50]

\* The discount the specification gives for a subtotal in millionths and a
\* value in tenths: the value capped at the subtotal for a positive fixed
\* discount, value percent of the subtotal for a percentage from 0 to 100,
\* zero otherwise.
DiscountOfTheSpec(type, tenths, sub) ==
    IF type = "fixed" /\ tenths > 0
    THEN (IF tenths * 100000 <= sub THEN tenths * 100000 ELSE sub)
    ELSE IF type \in {"percent", "percentage"} /\ 0 <= tenths /\ tenths <= 1000
    THEN (sub \div 1000) * tenths
    ELSE 0

\* A non-negative amount in millionths rounded half-up to cents: the number
\* of cents c with c - 1/2 <= x < c + 1/2.
HalfUpOfTheSpec(x) ==
    CHOOSE c \in 0..((x \div CentMicro) + 1) :
        /\ 2 * c * CentMicro - CentMicro <= 2 * x
        /\ 2 * x < 2 * c * CentMicro + CentMicro

\* C18: for every subtotal, every discount type and every numeric discount
\* value, calculate_discount returns the value capped at the subtotal for a
\* positive fixed discount, value percent of the subtotal for a percentage
\* between 0 and 100, and zero in every other case; the discount is between
\* zero and the subtotal and the total after discount is not negative.
C18_Discount ==
    \A p \in Procs :
        (Got(p) /\ invoice[1].disc_value \in NumbersOfTheSpec)
        => LET inv == invoice[1]
               sub == AmountsUpTo(1, MaxItems) * CentMicro
               d == calculate_discount(inv.disc_type, inv.disc_value, sub)
               expected == DiscountOfTheSpec(inv.disc_type,
                                             TenthsOfTheSpec[inv.disc_value], sub)
           IN  /\ ~d.raised
               /\ d.value = expected
               /\ 0 <= d.value
               /\ d.value <= sub
               /\ result[p].exc = "none"
               /\ result[p].totals.discount = HalfUpOfTheSpec(expected)
               /\ result[p].totals.total = HalfUpOfTheSpec(sub - expected)
               /\ result[p].totals.total >= 0

\* A fixed discount of 10.00 on a subtotal of 3.00 is a discount of 3.00.
C18_Witness ==
    \E p \in Procs :
        /\ Got(p)
        /\ invoice[1].disc_type = "fixed"
        /\ invoice[1].disc_value = "10"
        /\ result[p].exc = "none"
        /\ result[p].totals.subtotal = 300
        /\ result[p].totals.discount = 300
        /\ result[p].totals.total = 0

\* 7.5 percent of a non-negative amount in millionths, rounded half-up to
\* cents: the number of cents c with c - 1/2 <= 0.075 x < c + 1/2 (both sides
\* taken two hundred times, the amount in thousandths).
VatOfTheSpec(x) ==
    CHOOSE c \in 0..((x \div CentMicro) + 1) :
        /\ 2000 * c - 1000 <= 15 * (x \div 1000)
        /\ 15 * (x \div 1000) < 2000 * c + 1000

C20_AsStated ==
    \A p \in Procs :
        (Got(p) /\ UnparsableDiscount(invoice[1]))
        => /\ result[p].exc = "none"
           /\ result[p].totals.discount = 0

\* Invoice creation, added items and item updates, one request at a time.
NextItemUpdSeq ==
    \E p \in SeqProcs :
        \/ CreateInvoice(p, {CLIENT_TYPE_STUDENT}, ItemLists({OneItem}))
        \/ AddItem(p, {OneItem, FreeItem})
        \/ UpdateItem(p, {LeftOut, Null, 1, 2}, {LeftOut, Null, 0, 100})
        \/ TS_Commit(p)
        \/ Return(p)

SpecItemUpdSeq == Init /\ [][NextItemUpdSeq]_vars

\* C21: in every committed state reached by create_invoice,
\* add_item_to_invoice and update_item requests, the stored amount of each
\* item is its current quantity times its current rate (whole numbers, so
\* two decimals hold it exactly); an update_item that carries only the
\* quantity or only the rate recomputes the amount with the stored other one.
C21_AmountIsProduct ==
    \A r \in item : r.amount = r.qty * r.rate * 100

\* An update_item that carried the quantity alone has been committed: the
\* item has the new quantity, its old rate and the amount of the two.
C21_Witness ==
    \E p \in Procs :
        /\ pc[p] = "done"
        /\ req[p].op = "update_item"
        /\ req[p].items[1].qty = 2
        /\ req[p].items[1].rate = LeftOut
        /\ result[p] = Ok
        /\ \E r \in item :
              r.id = req[p].item_id /\ r.qty = 2 /\ r.rate = 100 /\ r.amount = 20000

\* Invoice creation and client deletion, one request at a time, on a store
\* that may or may not enforce foreign keys.
NextClientsSeq ==
    \E p \in SeqProcs :
        \/ CreateInvoice(p, {CLIENT_TYPE_STUDENT}, ItemLists({OneItem}))
        \/ DeleteClient(p, BOOLEAN)
        \/ TS_Commit(p)
        \/ Return(p)

SpecClientsSeq == Init /\ [][NextClientsSeq]_vars

NextPayTableSeq ==
    \E p \in SeqProcs :
        \/ CreateInvoice(p, {CLIENT_TYPE_STUDENT}, {<<OneItem>>})
        \/ ChangeStatus(p)
        \/ CreatePayment(p, {TRUE}, {None}, {"completed"})
        \/ DeletePayment(p)
        \/ PS_UpdateStatus(p)
        \/ TS_Commit(p)
        \/ Return(p)

SpecPayTableSeq == Init /\ [][NextPayTableSeq]_vars

\* C23: the status write that follows a payment does not consult the
\* transition table: when create_payment_and_update_invoice or
\* delete_payment_and_update_invoice commits, the stored status is paid if
\* the payments that are not cancelled reach the grand total and
\* partially_paid if they lie strictly between zero and the total, whatever
\* the status was before, a cancelled, draft or paid one included.
C23_StatusWriteIgnoresTable ==
    [][\A p \in Procs :
          (/\ Finishes(p)
           /\ result'[p] = Ok
           /\ req'[p].op \in {"create_payment_and_update_invoice",
                              "delete_payment_and_update_invoice"})
          => \A i \in InvoiceIds, before \in InvoiceStatus :
                (/\ invoice[i].exists
                 /\ invoice[i].status = before
                 /\ i = IF req'[p].op = "create_payment_and_update_invoice"
                        THEN req'[p].invoice_id
                        ELSE (CHOOSE r \in payment : r.id = req'[p].payment_id).invoice_id)
                => LET T == GrandTotal(invoice'[i], ItemsOf(item', i))
                       P == Applied(ItemsOf(payment', i))
                   IN  /\ P >= T => invoice'[i].status = PAID
                       /\ (0 < P /\ P < T) => invoice'[i].status = PARTIALLY_PAID]_vars

\* A payment that completes the total of a cancelled invoice has been added
\* and the status paid written over cancelled, a change the table forbids;
\* the commit that stores it is the next step.
C23_Witness ==
    \E p \in Procs :
        /\ pc[p] = "commit"
        /\ req[p].op = "create_payment_and_update_invoice"
        /\ sess[p].loaded.status = CANCELLED
        /\ invoice[req[p].invoice_id].status = CANCELLED
        /\ sess[p].status = PAID
        /\ ~validate_status_transition(CANCELLED, PAID)

\* ------------------------------------------------------------------- C24
\* C24: a create_payment_and_update_invoice request derives the status from
\* the committed payments and its own, without the payment another request
\* has flushed and not committed, and its commit stores that status when it
\* differs from the one it loaded, whatever the others stored meanwhile: the
\* stored status is the one of the request that wrote last. Two requests
\* whose amounts together reach the total can so both commit and leave
\* partially_paid.
C24_LastWriteWins ==
    [][\A p \in Procs :
          LET i == req[p].invoice_id
              T == GrandTotal(sess[p].loaded, ItemsOf(item, i))
              P == Applied(ItemsOf(payment, i) \cup sess[p].new_payments)
          IN  /\ (/\ req[p].op = "create_payment_and_update_invoice"
                  /\ pc[p] = "update_status"
                  /\ pc'[p] = "commit")
                 => sess'[p].status =
                       IF P >= T THEN PAID
                       ELSE IF P > 0 THEN PARTIALLY_PAID
                       ELSE sess[p].loaded.status
              /\ (/\ req[p].op = "create_payment_and_update_invoice"
                  /\ Finishes(p)
                  /\ result'[p] = Ok)
                 => invoice'[i].status =
                       IF sess[p].status # sess[p].loaded.status
                       THEN sess[p].status
                       ELSE invoice[i].status]_vars

\* Two overlapping requests have both committed, the stored payments reach
\* the grand total and the stored status is partially_paid.
C24_Witness ==
    \E i \in InvoiceIds :
        /\ invoice[i].exists
        /\ \A p \in Procs :
              /\ pc[p] = "done"
              /\ req[p].op = "create_payment_and_update_invoice"
              /\ req[p].invoice_id = i
              /\ result[p] = Ok
        /\ Applied(ItemsOf(payment, i)) >= GrandTotal(invoice[i], ItemsOf(item, i))
        /\ GrandTotal(invoice[i], ItemsOf(item, i)) > 0
        /\ invoice[i].status = PARTIALLY_PAID

\* ------------------------------------------------------------------- C25
\* C25 as stated: the five values calculate_invoice_totals returns agree to
\* the cent: total is subtotal minus discount and vat_total is total plus
\* vat, percentage discounts and VAT amounts that are not whole cents before
\* rounding included.
C25_AsStated ==
    \A p \in Procs :
        (Got(p) /\ result[p].exc = "none")
        => LET t == result[p].totals
           IN  /\ t.total = t.subtotal - t.discount
               /\ t.vat_total = t.total + t.vat

\* ------------------------------------------------------------------- C26
\* Invoice creation and get_invoice_by_id requests that overlap.
NextViews ==
    \E p \in Procs :
        \/ CreateInvoice(p, {CLIENT_TYPE_STUDENT}, {<<OneItem>>})
        \/ GetInvoice(p)
        \/ TS_Commit(p)
        \/ Return(p)

SpecViews == Init /\ [][NextViews]_vars

\* C26 as stated: every get_invoice_by_id with view tracking that completes
\* leaves the stored view_count exactly one higher than it was, whether the
\* calls follow each other or overlap, and leaves the status as it was.
C26_AsStated ==
    [][\A p \in Procs :
          (/\ Finishes(p)
           /\ req'[p].op = "get_invoice_by_id"
           /\ invoice[req'[p].invoice_id].exists)
          => LET i == req'[p].invoice_id
             IN  /\ invoice'[i].view_count = invoice[i].view_count + 1
                 /\ invoice'[i].status = invoice[i].status]_vars

\* ------------------------------------------------------------------- C27
\* send_overdue_reminders_task, lines 305-309: the invoices the task takes.
OverdueWithReminders(inv) ==
    /\ inv.exists
    /\ inv.status = OVERDUE
    /\ inv.send_reminders
    /\ inv.reminder_frequency # Null

\* Lines 327-353: nothing recorded, or .days of the time since the recorded
\* last_sent is at least reminder_frequency.
should_send(inv, day) ==
    \/ inv.reminder_logs.empty
    \/ day - inv.reminder_logs.last_sent >= inv.reminder_frequency

\* Lines 362-371: reminder_logs is a plain JSON column. When nothing was
\* recorded a new dict is assigned to the attribute and the commit stores it
\* with last_sent and count 1; otherwise the loaded dict is changed in place,
\* which the session does not follow, and the commit stores nothing.
RecordReminder(inv, day) ==
    IF inv.reminder_logs.empty
    THEN [inv EXCEPT !.reminder_logs = [empty |-> FALSE, last_sent |-> day, count |-> 1]]
    ELSE inv

\* One run of send_overdue_reminders_task, started by the beat schedule once
\* a day: every invoice it takes and finds due gets its reminder mailed,
\* unless send_payment_reminder raises EmailServiceError for it (the invoices
\* outside mailed), and the log is committed after each mail.
RemindersTask ==
    /\ ~celery.ran
    /\ \E mailed \in SUBSET {i \in InvoiceIds : /\ OverdueWithReminders(invoice[i])
                                                /\ should_send(invoice[i], celery.day)} :
          /\ invoice' = [i \in InvoiceIds |->
                            IF i \in mailed THEN RecordReminder(invoice[i], celery.day)
                            ELSE invoice[i]]
          /\ celery' = [celery EXCEPT
                           !.ran = TRUE,
                           !.sent = @ \cup {[invoice_id |-> i, day |-> celery.day] :
                                               i \in mailed}]
    /\ UNCHANGED <<client, item, payment, seq, pc, req, sess, result, year, jobs>>

\* The next day begins.
DayPasses ==
    /\ celery.day < MaxDays
    /\ celery' = [celery EXCEPT !.day = @ + 1, !.ran = FALSE]
    /\ UNCHANGED <<store, seq, pc, req, sess, result, year, jobs>>

ReminderFrequencies == {Null, 2}

\* The store holds invoice 1, sent or overdue, with its reminder settings as
\* create_invoice took them from the request; no reminder is recorded.
InitReminders ==
    \E st \in {SENT, OVERDUE}, on \in BOOLEAN, f \in ReminderFrequencies :
        /\ client = ExistingClients
        /\ invoice = [i \in InvoiceIds |->
                        IF i = 1
                        THEN [NoInvoice EXCEPT
                                 !.exists = TRUE, !.status = st,
                                 !.invoice_no = <<"INV", CurrentYear, ZeroPad(Digits(1), 6)>>,
                                 !.client_id = 1, !.client_type = CLIENT_TYPE_STUDENT,
                                 !.send_reminders = on, !.reminder_frequency = f]
                        ELSE NoInvoice]
        /\ item = {[id |-> 1, invoice_id |-> 1, qty |-> 1, rate |-> 100,
                    amount |-> ItemAmount(1, 100)]}
        /\ payment = {}
        /\ seq = [invoice |-> 2, item |-> 2, payment |-> 1]
        /\ pc = [p \in Procs |-> "idle"]
        /\ req = [p \in Procs |-> NoReq]
        /\ sess = [p \in Procs |-> NoSess]
        /\ result = [p \in Procs |-> NoResult]
        /\ year = CurrentYear
        /\ jobs = {}
        /\ celery = NoCelery

\* The daily reminders task, the days, and explicit status changes.
NextReminders ==
    \/ RemindersTask
    \/ DayPasses
    \/ \E p \in SeqProcs : ChangeStatus(p) \/ TS_Commit(p) \/ Return(p)

SpecReminders == InitReminders /\ [][NextReminders]_vars

\* C27 as stated: send_overdue_reminders_task mails a reminder for an invoice
\* only when the invoice is overdue with reminders enabled and either nothing
\* is recorded or at least reminder_frequency days have passed since the
\* recorded last_sent; each reminder mailed stores last_sent and raises the
\* stored count by one; any two reminders of an invoice are at least
\* reminder_frequency days apart.
C27_AsStated ==
    [][\A e \in celery'.sent \ celery.sent :
          LET old == invoice[e.invoice_id]
              new == invoice'[e.invoice_id]
          IN  /\ OverdueWithReminders(old)
              /\ old.reminder_logs.empty
                 \/ e.day - old.reminder_logs.last_sent >= old.reminder_frequency
              /\ ~new.reminder_logs.empty
              /\ new.reminder_logs.last_sent = e.day
              /\ new.reminder_logs.count = old.reminder_logs.count + 1
              /\ \A f \in celery.sent :
                    f.invoice_id = e.invoice_id
                    => e.day - f.day >= old.reminder_frequency]_vars

\* ------------------------------------------------------------------- C28
\* send_invoice_email_task, lines 30-41 of tasks/email_tasks.py.
EMAIL_MAX_RETRIES == 3
autoretry_for == {"ConnectionError", "TimeoutError"}

\* What send_invoice_email can end with for an invoice that exists: the
\* email id, EmailSendError (send_email_with_attachment turns every failure
\* of the mail provider into it), EmailServiceError (a template that does not
\* render), or another exception, one of the classes named by autoretry_for
\* or not.
EmailOutcomes == {"none", "EmailSendError", "EmailServiceError", "ConnectionError", "Exception"}

\* send_invoice_email_task.delay(invoice_id): a new task message.
Email_Delay(invoice_id) ==
    /\ celery.email.state \in {"none", "success", "rejected", "failure"}
    /\ celery' = [celery EXCEPT !.email = [NoTask EXCEPT !.state = "queued",
                                                        !.invoice_id = invoice_id]]
    /\ UNCHANGED <<store, seq, pc, req, sess, result, year, jobs>>

\* A worker takes the message and the task opens its session (lines 77-78).
Email_Start ==
    /\ celery.email.state = "queued"
    /\ celery.email.executions < MaxExecutions
    /\ celery' = [celery EXCEPT !.email.state = "running",
                                !.email.executions = @ + 1,
                                !.email.session = "open"]
    /\ UNCHANGED <<store, seq, pc, req, sess, result, year, jobs>>

\* What Celery does with an exception exc that leaves the body of a task t
\* declared with autoretry_for and max_retries: a retry for the classes named
\* while retries are left, the failure of the task otherwise.
AutoRetry(t, exc) ==
    IF exc \in autoretry_for /\ t.retries < EMAIL_MAX_RETRIES
    THEN [t EXCEPT !.state = "queued", !.retries = @ + 1]
    ELSE [t EXCEPT !.state = "failure"]

\* Lines 80-144: the body ends. EmailSendError is raised again, another
\* EmailServiceError becomes Reject(requeue=False), any other exception is
\* raised again; the finally clause closes the session.
Email_Finish(outcome) ==
    /\ celery.email.state = "running"
    /\ LET t == celery.email
           exc == IF invoice[t.invoice_id].exists THEN outcome ELSE "EmailServiceError"
           ended == [t EXCEPT !.raised = exc, !.session = "closed"]
       IN  celery' = [celery EXCEPT !.email =
                         IF exc = "none" THEN [ended EXCEPT !.state = "success"]
                         ELSE IF exc = "EmailSendError" THEN AutoRetry(ended, exc)
                         ELSE IF exc = "EmailServiceError"
                         THEN [ended EXCEPT !.state = "rejected"]
                         ELSE AutoRetry(ended, exc)]
    /\ UNCHANGED <<store, seq, pc, req, sess, result, year, jobs>>

\* Invoice creation, one request at a time, and the email task.
NextEmailTask ==
    \/ \E p \in SeqProcs :
          \/ CreateInvoice(p, {CLIENT_TYPE_STUDENT}, {<<OneItem>>})
          \/ TS_Commit(p)
          \/ Return(p)
    \/ \E i \in InvoiceIds : Email_Delay(i)
    \/ Email_Start
    \/ \E o \in EmailOutcomes : Email_Finish(o)

SpecEmailTask == Init /\ [][NextEmailTask]_vars

\* C28 as stated: when an execution of send_invoice_email_task ends with
\* EmailSendError the task is retried, up to max_retries = 3 retries, and
\* fails only after them; when it ends with another email-service error the
\* task is rejected without requeue and not retried.
C28_AsStated ==
    [][(celery.email.state = "running" /\ celery'.email.state # "running")
       => /\ celery'.email.raised = "EmailSendError"
             => IF celery.email.retries < EMAIL_MAX_RETRIES
                THEN /\ celery'.email.state = "queued"
                     /\ celery'.email.retries = celery.email.retries + 1
                ELSE celery'.email.state = "failure"
          /\ celery'.email.raised = "EmailServiceError"
             => /\ celery'.email.state = "rejected"
                /\ celery'.email.retries = celery.email.retries]_vars

\* ------------------------------------------------------------------- C29
\* generate_invoice_pdf_task, line 35 of tasks/invoice_tasks.py.
PDF_MAX_RETRIES == 2

\* What generate_invoice_pdf and the lookup after it can end with for an
\* invoice that exists: the bytes, PDFServiceError, or another exception.
PdfOutcomes == {"none", "PDFServiceError", "Exception"}

\* generate_invoice_pdf_task.delay(invoice_id): a new task message.
Pdf_Delay(invoice_id) ==
    /\ celery.pdf.state \in {"none", "success", "rejected", "failure"}
    /\ celery' = [celery EXCEPT !.pdf = [NoTask EXCEPT !.state = "queued",
                                                      !.invoice_id = invoice_id]]
    /\ UNCHANGED <<store, seq, pc, req, sess, result, year, jobs>>

\* A worker takes the message and the task opens its session (lines 75-76).
Pdf_Start ==
    /\ celery.pdf.state = "queued"
    /\ celery.pdf.executions < MaxExecutions
    /\ celery' = [celery EXCEPT !.pdf.state = "running",
                                !.pdf.executions = @ + 1,
                                !.pdf.session = "open"]
    /\ UNCHANGED <<store, seq, pc, req, sess, result, year, jobs>>

\* Faulty variant: the unexpected error is retried whatever the count.
RetryAlways(t) == TRUE

\* Line 146: self.request.retries < self.max_retries.
RetriesLeft(t) == t.retries < PDF_MAX_RETRIES

\* Lines 78-157: the body ends. PDFInvoiceNotFoundError and PDFServiceError
\* become Reject(requeue=False); any other exception is retried by
\* self.retry while retries are left and raised again afterwards; the finally
\* clause closes the session.
Pdf_Finish(outcome) ==
    /\ celery.pdf.state = "running"
    /\ LET t == celery.pdf
           exc == IF invoice[t.invoice_id].exists THEN outcome
                  ELSE "PDFInvoiceNotFoundError"
           ended == [t EXCEPT !.raised = exc, !.session = "closed"]
       IN  celery' = [celery EXCEPT !.pdf =
                         IF exc = "none" THEN [ended EXCEPT !.state = "success"]
                         ELSE IF exc \in {"PDFInvoiceNotFoundError", "PDFServiceError"}
                         THEN [ended EXCEPT !.state = "rejected"]
                         ELSE IF RetriesLeft(t)
                         THEN [ended EXCEPT !.state = "queued", !.retries = @ + 1]
                         ELSE [ended EXCEPT !.state = "failure"]]
    /\ UNCHANGED <<store, seq, pc, req, sess, result, year, jobs>>

Pdf_End == \E o \in PdfOutcomes : Pdf_Finish(o)

\* Invoice creation, one request at a time, and the PDF task.
NextPdfTask ==
    \/ \E p \in SeqProcs :
          \/ CreateInvoice(p, {CLIENT_TYPE_STUDENT}, {<<OneItem>>})
          \/ TS_Commit(p)
          \/ Return(p)
    \/ \E i \in InvoiceIds : Pdf_Delay(i)
    \/ Pdf_Start
    \/ Pdf_End

\* A worker is running: a message in the queue is taken (after the countdown
\* of a retry as well) and a body that runs comes to its end within the time
\* limit of the task.
SpecPdfTask ==
    /\ Init
    /\ [][NextPdfTask]_vars
    /\ WF_vars(Pdf_Start)
    /\ WF_vars(Pdf_End)

PdfTerminal == {"success", "rejected", "failure"}

NextPayUpdSeq ==
    \E p \in SeqProcs :
        \/ CreateInvoice(p, {CLIENT_TYPE_STUDENT}, {<<OneItem>>})
        \/ CreatePayment(p, {TRUE}, {None}, {"completed"})
        \/ UpdatePayment(p, {LeftOut, 10000}, {Unset, "cancelled"})
        \/ DeletePayment(p)
        \/ PS_UpdateStatus(p)
        \/ TS_Commit(p)
        \/ Return(p)

SpecPayUpdSeq == Init /\ [][NextPayUpdSeq]_vars

\* C30 as stated: after any sequence of create_payment_and_update_invoice,
\* update_payment and delete_payment_and_update_invoice on an invoice, the
\* stored status is paid exactly when the payments that are not cancelled
\* reach the grand total, and partially_paid exactly when their sum lies
\* strictly between zero and the total.
C30_AsStated ==
    \A i \in InvoiceIds :
        invoice[i].exists
        => LET T == GrandTotal(invoice[i], ItemsOf(item, i))
               P == Applied(ItemsOf(payment, i))
           IN  /\ invoice[i].status = PAID <=> P >= T
               /\ invoice[i].status = PARTIALLY_PAID <=> (0 < P /\ P < T)

====
